---- MODULE Spec2Model ----
(***************************************************************************)
(* Flippo arbiter (RunGame, its transport and its rule engine) and the     *)
(* reference player (the rule engine and the search of player.cc),         *)
(* modelled as state machines.                                             *)
(***************************************************************************)
EXTENDS Integers, Sequences, FiniteSets, TLC

(***************************************************************************)
(* Program constants.                                                      *)
(***************************************************************************)
SIZE == 8
MAX_MOVES == 60
\* The characters 'A', '1' and '\n' as the integers the code computes with.
CharA == 65
Char1 == 49
NL == 10
\* player.cc: board size and enum class Player.
H == 8
W == 8
NONE == 0
WHITE == 1
BLACK == -1
MIN_VALUE == -9999
MAX_VALUE == 9999
\* The depth SelectMove hands to Search.
SEARCH_DEPTH == 3

(***************************************************************************)
(* Bounds of the model.                                                    *)
(***************************************************************************)
\* In the first FreePlies plies the mover may send any legal move; later it
\* sends the scripted one (ScriptedMove).  Any mover may send a bad line or
\* fail at any ply.
FreePlies == 1
\* The boards the rule engines are probed on hold discs only on the first
\* NumSeeds cells of SeedOffsets, laid out from one of the Anchors.
NumSeeds == 4
\* std::random_shuffle is modelled by the orders Shuffle(moves, k) of the move
\* list, k in 0 .. MaxShuffle.
MaxShuffle == 1
\* The player is followed until it has written MaxSelects moves.
MaxSelects == 1
\* The strings given to ParseMove have at most MaxCodeLen characters.
MaxCodeLen == 3
\* --rounds is at most MaxRounds.
MaxRounds == 3
\* The first moves a match between two reference players is opened with.
MaxOpenings == 5

Rows == 0 .. (SIZE - 1)
Cols == 0 .. (SIZE - 1)

\* struct Move {row, col}; the 64 cells in the row-major order of the
\* nested loops `for r ... for c ...`.
AllMoves == [i \in 1 .. (SIZE * SIZE) |-> [row |-> (i - 1) \div SIZE, col |-> (i - 1) % SIZE]]

\* The eight directions in the order of the loops over dr and dc.
Directions == << <<-1, -1>>, <<-1, 0>>, <<-1, 1>>, <<0, -1>>, <<0, 1>>, <<1, -1>>, <<1, 0>>, <<1, 1>> >>

(***************************************************************************)
(* Arbiter: game logic.                                                    *)
(***************************************************************************)
EmptyFields == [r \in Rows |-> [c \in Cols |-> 0]]

\* Mutant: a fifth disc next to the four of the centre.
InitialStateFiveDiscs ==
  [fields |-> [EmptyFields EXCEPT ![SIZE \div 2 - 1][SIZE \div 2 - 1] = 1,
                                  ![SIZE \div 2 - 1][SIZE \div 2] = 2,
                                  ![SIZE \div 2][SIZE \div 2 - 1] = 2,
                                  ![SIZE \div 2][SIZE \div 2] = 1,
                                  ![SIZE \div 2][SIZE \div 2 + 1] = 2],
   moves_played |-> 0]

InitialState ==
  [fields |-> [EmptyFields EXCEPT ![SIZE \div 2 - 1][SIZE \div 2 - 1] = 1,
                                  ![SIZE \div 2 - 1][SIZE \div 2] = 2,
                                  ![SIZE \div 2][SIZE \div 2 - 1] = 2,
                                  ![SIZE \div 2][SIZE \div 2] = 1],
   moves_played |-> 0]

ValidCoords(r, c) == 0 <= r /\ r < SIZE /\ 0 <= c /\ c < SIZE

\* Mutant: `return scores[1] - scores[0]`.
CalculateScoreAgainstEmpty(st) ==
  Cardinality({i \in 1 .. (SIZE * SIZE) : st.fields[AllMoves[i].row][AllMoves[i].col] = 1})
  - Cardinality({i \in 1 .. (SIZE * SIZE) : st.fields[AllMoves[i].row][AllMoves[i].col] = 0})

CalculateScore(st) ==
  Cardinality({i \in 1 .. (SIZE * SIZE) : st.fields[AllMoves[i].row][AllMoves[i].col] = 1})
  - Cardinality({i \in 1 .. (SIZE * SIZE) : st.fields[AllMoves[i].row][AllMoves[i].col] = 2})

\* Mutant: `>` for `>=`.
IsGameOverOffByOne(st) == st.moves_played > MAX_MOVES

IsGameOver(st) == st.moves_played >= MAX_MOVES

\* Mutant: the parity of the next move count.
GetNextPlayerShifted(st) == (st.moves_played + 1) % 2

GetNextPlayer(st) == st.moves_played % 2

FormatMove(move) == <<CharA + move.row, Char1 + move.col>>

\* ParseMove returns a bool and fills *move: [ok, move].
NoMove == [row |-> 0 - 1, col |-> 0 - 1]

\* Mutant: row and column taken from the wrong characters.
ParseMoveTransposed(s) ==
  IF Len(s) # 2 THEN [ok |-> FALSE, move |-> NoMove]
  ELSE LET row == s[2] - Char1
           col == s[1] - CharA
       IN  IF ~ValidCoords(row, col) THEN [ok |-> FALSE, move |-> NoMove]
           ELSE [ok |-> TRUE, move |-> [row |-> row, col |-> col]]

ParseMove(s) ==
  IF Len(s) # 2 THEN [ok |-> FALSE, move |-> NoMove]
  ELSE LET row == s[1] - CharA
           col == s[2] - Char1
       IN  IF ~ValidCoords(row, col) THEN [ok |-> FALSE, move |-> NoMove]
           ELSE [ok |-> TRUE, move |-> [row |-> row, col |-> col]]

\* F of the value of v, with v evaluated once.
With(v, F(_)) == CHOOSE r \in {F(x) : x \in {v}} : TRUE

HasOccupiedNeighbor(st, r, c) ==
  \E r2 \in (r - 1) .. (r + 1) : \E c2 \in (c - 1) .. (c + 1) :
    (r2 # r \/ c2 # c) /\ ValidCoords(r2, c2) /\ st.fields[r2][c2] # 0

\* Mutant: the scan stops at the first cell holding `player`.
RECURSIVE LastNFirst(_, _, _, _, _, _, _, _)
LastNFirst(fields, player, r, c, dr, dc, n, last_n) ==
  LET r2 == r + n * dr
      c2 == c + n * dc
  IN  IF ~ValidCoords(r2, c2) \/ fields[r2][c2] = 0
      THEN last_n
      ELSE IF fields[r2][c2] = player THEN n
      ELSE LastNFirst(fields, player, r, c, dr, dc, n + 1, last_n)

\* The scan `for (n = 1; ; ++n)` of FindFlips in one direction: the last n at
\* which the scanned cell holds `player`, before the scan leaves the board or
\* meets an empty cell.
RECURSIVE LastN(_, _, _, _, _, _, _, _)
LastN(fields, player, r, c, dr, dc, n, last_n) ==
  LET r2 == r + n * dr
      c2 == c + n * dc
  IN  IF ~ValidCoords(r2, c2) \/ fields[r2][c2] = 0
      THEN last_n
      ELSE LastN(fields, player, r, c, dr, dc, n + 1,
                 IF fields[r2][c2] = player THEN n ELSE last_n)

\* Mutant: the bracketing disc is handed to the callback as well.
FlipRunInclusive(fields, player, r, c, d) ==
  LET last_n == LastN(fields, player, r, c, d[1], d[2], 1, 0)
  IN  {<<r + n * d[1], c + n * d[2]>> : n \in 1 .. last_n}

\* The cells FindFlips hands to its callback in direction d.
FlipRun(fields, player, r, c, d) ==
  LET last_n == LastN(fields, player, r, c, d[1], d[2], 1, 0)
  IN  {<<r + n * d[1], c + n * d[2]>> : n \in 1 .. (last_n - 1)}

\* FindFlips with the callback of ListValidMoves, `[](int, int) { return false; }`:
\* FALSE as soon as the callback is called once, TRUE when it never is.
FindFlipsAbort(st, player, r, c) ==
  ~ \E k \in 1 .. Len(Directions) : FlipRun(st.fields, player, r, c, Directions[k]) # {}

\* `state.fields[r][c] ^= 3` on a char holding 0..3.
Xor3(v) == 3 - v

\* FindFlips with the callback of ExecuteMove, which toggles each cell handed
\* to it; the scan of direction k reads the fields as left by directions < k.
RECURSIVE FindFlipsToggle(_, _, _, _, _)
FindFlipsToggle(fields, player, r, c, k) ==
  IF k > Len(Directions) THEN fields
  ELSE LET run == FlipRun(fields, player, r, c, Directions[k])
           toggled == IF run = {} THEN fields
                      ELSE [rr \in Rows |-> [cc \in Cols |->
                              IF <<rr, cc>> \in run THEN Xor3(fields[rr][cc]) ELSE fields[rr][cc]]]
       IN  With(toggled, LAMBDA f : FindFlipsToggle(f, player, r, c, k + 1))

ListValidMoves(st) ==
  LET player == (st.moves_played % 2) + 1
      all_moves == SelectSeq(AllMoves, LAMBDA m :
                     st.fields[m.row][m.col] = 0 /\ HasOccupiedNeighbor(st, m.row, m.col))
      flipping_moves == SelectSeq(all_moves, LAMBDA m :
                     ~FindFlipsAbort(st, player, m.row, m.col))
  IN  IF flipping_moves = <<>> THEN all_moves ELSE flipping_moves

\* std::find(valid_moves.begin(), valid_moves.end(), move) != valid_moves.end()
Find(moves, move) == \E i \in 1 .. Len(moves) : moves[i] = move

ValidateMove(st, move) == Find(ListValidMoves(st), move)

\* Mutant: the discs are turned but the disc of the move is not placed.
ExecuteMoveNoDisc(st, move) ==
  LET player == (st.moves_played % 2) + 1
  IN  [fields |-> FindFlipsToggle(st.fields, player, move.row, move.col, 1),
       moves_played |-> st.moves_played + 1]

ExecuteMove(st, move) ==
  LET player == (st.moves_played % 2) + 1
      flipped == FindFlipsToggle(st.fields, player, move.row, move.col, 1)
  IN  [fields |-> [flipped EXCEPT ![move.row][move.col] = player],
       moves_played |-> st.moves_played + 1]

RECURSIVE EncodeHistory(_)
EncodeHistory(moves) ==
  IF moves = <<>> THEN <<>> ELSE FormatMove(Head(moves)) \o EncodeHistory(Tail(moves))

(***************************************************************************)
(* Arbiter: transport.  One read() of the pipe gives n (negative on error) *)
(* and the n bytes of buf.                                                 *)
(***************************************************************************)
\* memchr(buf, '\n', n): the index of the first newline, 0 for NULL.
Memchr(buf, n) ==
  IF \E k \in 1 .. n : buf[k] = NL
  THEN CHOOSE k \in 1 .. n : buf[k] = NL /\ \A j \in 1 .. (k - 1) : buf[j] # NL
  ELSE 0

\* Mutant: no test for bytes after the newline.
ReadLineNoExtraCheck(rd) ==
  IF rd.n <= 0 THEN <<>>
  ELSE IF Memchr(rd.buf, rd.n) = 0 THEN <<>>
  ELSE SubSeq(rd.buf, 1, rd.n - 1)

ReadLine(rd) ==
  IF rd.n < 0 THEN <<>>
  ELSE IF rd.n = 0 THEN <<>>
  ELSE LET p == Memchr(rd.buf, rd.n)
       IN  IF p = 0 THEN <<>>
           ELSE IF p # rd.n THEN <<>>
           ELSE SubSeq(rd.buf, 1, rd.n - 1)

\* "Start\n" and "Quit\n".
StartMsg == <<83, 116, 97, 114, 116, NL>>
QuitMsg == <<81, 117, 105, 116, NL>>

(***************************************************************************)
(* Player (player.cc): rule engine.                                        *)
(***************************************************************************)
Other(p) == 0 - p

PlayerValidCoords(r, c) == r >= 0 /\ r < W /\ c >= 0 /\ c < W

PlayerRows == 0 .. (H - 1)
PlayerCols == 0 .. (W - 1)

\* REP(r, H) REP(c, W): the cells in row-major order.
PlayerCells == [i \in 1 .. (H * W) |-> [row |-> (i - 1) \div W, col |-> (i - 1) % W]]

InitialBoard ==
  [fields |-> [[r \in PlayerRows |-> [c \in PlayerCols |-> NONE]]
                 EXCEPT ![H \div 2 - 1][W \div 2 - 1] = WHITE,
                        ![H \div 2 - 1][W \div 2] = BLACK,
                        ![H \div 2][W \div 2 - 1] = BLACK,
                        ![H \div 2][W \div 2] = WHITE],
   next_player |-> WHITE]

\* Mutant: a disc of p right next to the cell counts as a flip.
RECURSIVE HasFlipsScanAdjacent(_, _, _, _, _, _, _)
HasFlipsScanAdjacent(fields, p, r, c, dr, dc, n) ==
  LET r2 == r + dr * n
      c2 == c + dc * n
  IN  IF ~PlayerValidCoords(r2, c2) THEN FALSE
      ELSE IF fields[r2][c2] = NONE THEN FALSE
      ELSE IF fields[r2][c2] = p THEN TRUE
      ELSE HasFlipsScanAdjacent(fields, p, r, c, dr, dc, n + 1)

\* The scan of HasFlips in one direction.
RECURSIVE HasFlipsScan(_, _, _, _, _, _, _)
HasFlipsScan(fields, p, r, c, dr, dc, n) ==
  LET r2 == r + dr * n
      c2 == c + dc * n
  IN  IF ~PlayerValidCoords(r2, c2) THEN FALSE
      ELSE IF fields[r2][c2] = NONE THEN FALSE
      ELSE IF fields[r2][c2] = p /\ n > 1 THEN TRUE
      ELSE HasFlipsScan(fields, p, r, c, dr, dc, n + 1)

HasFlips(fields, p, r, c) ==
  \E k \in 1 .. Len(Directions) :
    HasFlipsScan(fields, p, r, c, Directions[k][1], Directions[k][2], 1)

\* Mutant: last_n is the first disc of p the scan meets.
RECURSIVE DoFlipsLastNFirst(_, _, _, _, _, _, _, _)
DoFlipsLastNFirst(fields, p, r, c, dr, dc, n, last_n) ==
  LET r2 == r + dr * n
      c2 == c + dc * n
  IN  IF ~PlayerValidCoords(r2, c2) THEN last_n
      ELSE IF fields[r2][c2] = NONE THEN last_n
      ELSE IF fields[r2][c2] = p THEN n
      ELSE DoFlipsLastNFirst(fields, p, r, c, dr, dc, n + 1, last_n)

\* The first loop of DoFlips in one direction: last_n.
RECURSIVE DoFlipsLastN(_, _, _, _, _, _, _, _)
DoFlipsLastN(fields, p, r, c, dr, dc, n, last_n) ==
  LET r2 == r + dr * n
      c2 == c + dc * n
  IN  IF ~PlayerValidCoords(r2, c2) THEN last_n
      ELSE IF fields[r2][c2] = NONE THEN last_n
      ELSE DoFlipsLastN(fields, p, r, c, dr, dc, n + 1,
                        IF fields[r2][c2] = p THEN n ELSE last_n)

\* DoFlips from direction k on: each direction reads the fields as the
\* directions before it left them.
RECURSIVE DoFlipsFrom(_, _, _, _, _)
DoFlipsFrom(fields, p, r, c, k) ==
  IF k > Len(Directions) THEN fields
  ELSE LET dr == Directions[k][1]
           dc == Directions[k][2]
           last_n == DoFlipsLastN(fields, p, r, c, dr, dc, 1, 0)
           flipped == IF last_n <= 1 THEN fields
                      ELSE [rr \in PlayerRows |-> [cc \in PlayerCols |->
                              IF \E n \in 1 .. (last_n - 1) : rr = r + n * dr /\ cc = c + n * dc
                              THEN Other(fields[rr][cc]) ELSE fields[rr][cc]]]
       IN  With(flipped, LAMBDA f : DoFlipsFrom(f, p, r, c, k + 1))

DoFlips(fields, p, r, c) == DoFlipsFrom(fields, p, r, c, 1)

\* Called on empty cells only (its CHECK_EQ(fields[r][c], NONE) is the guard
\* of both callers); the clamped window then holds the cell itself, empty.
PlayerHasOccupiedNeighbor(fields, r, c) ==
  LET min_r == IF r > 0 THEN r - 1 ELSE 0
      max_r == IF r < H - 1 THEN r + 1 ELSE H - 1
      min_c == IF c > 0 THEN c - 1 ELSE 0
      max_c == IF c < W - 1 THEN c + 1 ELSE W - 1
  IN  \E r2 \in min_r .. max_r : \E c2 \in min_c .. max_c : fields[r2][c2] # NONE

\* CHECK_EQ(fields[move.row][move.col], Player::NONE) of DoMove.
DoMoveCheck(b, move) == b.fields[move.row][move.col] = NONE

\* Mutant: the side to move stays the same.
DoMoveKeepsSide(b, move) ==
  LET p == b.next_player
      placed == [b.fields EXCEPT ![move.row][move.col] = p]
  IN  [fields |-> DoFlips(placed, p, move.row, move.col), next_player |-> p]

DoMove(b, move) ==
  LET p == b.next_player
      placed == [b.fields EXCEPT ![move.row][move.col] = p]
  IN  [fields |-> DoFlips(placed, p, move.row, move.col), next_player |-> Other(p)]

\* CHECK_EQ(fields[move.row][move.col], p) of UndoMove.
UndoMoveCheck(b, move) == b.fields[move.row][move.col] = Other(b.next_player)

UndoMove(b, move) ==
  LET p == Other(b.next_player)
      removed == [b.fields EXCEPT ![move.row][move.col] = NONE]
  IN  [fields |-> DoFlips(removed, p, move.row, move.col), next_player |-> p]

\* The first `return` entries of the array ListMoves fills.
ListMoves(b) ==
  LET p == b.next_player
      total_moves == SelectSeq(PlayerCells, LAMBDA m :
                       b.fields[m.row][m.col] = NONE
                       /\ PlayerHasOccupiedNeighbor(b.fields, m.row, m.col))
      flipping_moves == SelectSeq(total_moves, LAMBDA m : HasFlips(b.fields, p, m.row, m.col))
  IN  IF Len(flipping_moves) > 0 THEN flipping_moves ELSE total_moves

MoveIsValid(b, move) == \E i \in 1 .. Len(ListMoves(b)) : ListMoves(b)[i] = move

\* The contribution of one cell to Evaluate.
EvaluateCell(b, r, c) ==
  LET p == b.next_player
      q == Other(p)
  IN  IF b.fields[r][c] = NONE
      THEN IF PlayerHasOccupiedNeighbor(b.fields, r, c)
           THEN (IF HasFlips(b.fields, p, r, c) THEN 2 ELSE 0)
                - (IF HasFlips(b.fields, q, r, c) THEN 2 ELSE 0)
           ELSE 0
      ELSE IF b.fields[r][c] = p THEN 1 ELSE 0 - 1

\* The sum of the loop of Evaluate: each cell adds a score in -2 .. 2, and the
\* sum is taken by counting the cells of each score.
SumScores(score) ==
  LET count(v) == Cardinality({i \in 1 .. (H * W) : score[i] = v})
  IN  2 * count(2) + count(1) - count(0 - 1) - 2 * count(0 - 2)

Evaluate(b) ==
  With([i \in 1 .. (H * W) |-> EvaluateCell(b, PlayerCells[i].row, PlayerCells[i].col)],
       SumScores)

\* best_value after the loop of Search: the largest of MIN_VALUE - 1 and the
\* values of the moves.
BestValue(values) ==
  CHOOSE best_value \in values \cup {MIN_VALUE - 1} :
    \A value \in values \cup {MIN_VALUE - 1} : value <= best_value

\* Search as a function of the board and the depth.  Its two CHECKs on
\* best_value are steps of SearchReturn below.
RECURSIVE Search(_, _)
Search(board_arg, depth) ==
  With(board_arg, LAMBDA b :
    IF depth <= 0 THEN Evaluate(b)
    ELSE With(ListMoves(b), LAMBDA moves :
           IF Len(moves) <= 0 THEN Evaluate(b)
           ELSE With({0 - Search(DoMove(b, moves[i]), depth - 1) : i \in 1 .. Len(moves)},
                     BestValue)))

\* `-Search(&board, 3)` after DoMove(&board, move), for every move of SelectMove's list.
\* A set of pairs <<move, value>>.
RootValues(b, moves) ==
  {<<moves[i], 0 - Search(DoMove(b, moves[i]), SEARCH_DEPTH)>> : i \in 1 .. Len(moves)}

\* The value of `move` in such a set.
ValueOf(values, move) == (CHOOSE pair \in values : pair[1] = move)[2]

\* The loop of SelectMove over the shuffled moves: best_value and *best_move.
RECURSIVE SelectMoveLoop(_, _, _, _, _)
SelectMoveLoop(moves, values, i, best_value, best_move) ==
  IF i > Len(moves) THEN [best_value |-> best_value, best_move |-> best_move]
  ELSE LET value == ValueOf(values, moves[i])
       IN  IF value > best_value
           THEN SelectMoveLoop(moves, values, i + 1, value, moves[i])
           ELSE SelectMoveLoop(moves, values, i + 1, best_value, best_move)

\* SelectMove on the shuffled list `moves`, whose values are `values`, with
\* *best_move holding `move` at the call.
SelectMove(moves, values, move) ==
  LET r == SelectMoveLoop(moves, values, 1, MIN_VALUE - 1, move)
  IN  [found |-> r.best_value >= MIN_VALUE, best_move |-> r.best_move]

PlayerFormatMove(move) == <<CharA + move.row, Char1 + move.col>>

PlayerParseMove(s) ==
  IF Len(s) # 2 THEN [ok |-> FALSE, move |-> NoMove]
  ELSE LET row == s[1] - CharA
           col == s[2] - Char1
       IN  IF ~PlayerValidCoords(row, col) THEN [ok |-> FALSE, move |-> NoMove]
           ELSE [ok |-> TRUE, move |-> [row |-> row, col |-> col]]

(***************************************************************************)
(* State.                                                                  *)
(***************************************************************************)
VARIABLES
  pc,           \* position of the arbiter in RunGame
  state,        \* RunGame's `state`
  history,      \* RunGame's `history`
  started,      \* RunGame's `started`
  next_player,  \* RunGame's `next_player` of the current iteration
  line,         \* RunGame's `line` of the current iteration
  last_read,    \* what the read() behind `line` delivered
  valid_moves,  \* ValidateMove's `valid_moves` of its last call
  spawned,      \* per player: a child process exists
  quits,        \* per player: number of calls of Quit
  result,       \* the GameResult RunGame returns
  fail,         \* which step ended the loop early, and on whose pipe
  io,           \* every read and write on the pipes, in order
  rpc,          \* position of the rule-engine probe
  board,        \* the player's Board
  listed,       \* the last probe: what ListValidMoves and ListMoves returned
  last,         \* the last probe: its move and the State and Board it was applied to
  stack,        \* SelectMove's frame and the frames of the nested calls of Search
  ret,          \* the value the last call of Search returned
  sel,          \* SelectMove's original_board, *best_move and return value
  my_player,    \* main of the player: my_player
  tour,         \* Main of the arbiter: rounds, games, game and the matches run
  codec,        \* the last move code probe: its input and what came out
  status,       \* the last Quit call: what its Write returned and waitpid reported
  procs         \* the two player processes of a match: the locals of their main, and their pipes

gameVars == <<pc, history, started, next_player, line, last_read, valid_moves,
              spawned, quits, result, fail, io>>

playerVars == <<rpc, board, listed, last, stack, ret, sel>>

\* What neither RunGame nor the rule probes touch.
restVars == <<my_player, tour, codec, status, procs>>

vars == <<pc, state, history, started, next_player, line, last_read, valid_moves,
          spawned, quits, result, fail, io, rpc, board, listed, last, stack, ret, sel,
          my_player, tour, codec, status, procs>>

NoRead == [n |-> 0 - 2, buf |-> <<>>]
NoResult == [transcript |-> <<>>, score |-> 0]
NoFail == [step |-> "none", player |-> 0 - 1]
NoList == [valid_moves |-> <<>>, moves |-> <<>>]
NoProbe == [move |-> NoMove, state |-> InitialState, board |-> InitialBoard]
Zero2 == [i \in 0 .. 1 |-> 0]
\* The locals of Main before the program has set them.
NoTour == [rounds |-> 0, games |-> 0, game |-> 0, matches |-> <<>>,
           wins |-> Zero2, ties |-> Zero2, losses |-> Zero2, failures |-> Zero2,
           score_by_color |-> [i \in 0 .. 1 |-> Zero2], score |-> Zero2]
NoParse == [ok |-> FALSE, move |-> NoMove]
NoStatus == [write_ok |-> FALSE, wait |-> "none"]
NoCodec == [move |-> NoMove, arbiter_code |-> <<>>, player_code |-> <<>>,
            arbiter |-> NoParse, player |-> NoParse]
\* `Move move;` of main: Move() is (0, 0).
NoSelect == [original_board |-> InitialBoard, best_move |-> [row |-> 0, col |-> 0], found |-> FALSE]
\* A player process at the head of main's loop: my_player, board and move as
\* main declares them, the last line std::getline gave, the number of lines
\* taken from stdin, the lines written to stdout, and how far the program is
\* ("main" while the loop runs).
NewProc == [my_player |-> NONE, board |-> InitialBoard, move |-> [row |-> 0, col |-> 0],
            line |-> <<>>, reads |-> 0, out |-> <<>>, at |-> "main"]
NoProcs == [i \in 0 .. 1 |-> NewProc]

(***************************************************************************)
(* What the players send.                                                  *)
(***************************************************************************)
Bytes(s) == [n |-> Len(s), buf |-> s]

\* The move a scripted player sends after the free plies, out of the legal
\* moves `moves` of st.
ScriptedMove(st, moves) == moves[(st.moves_played % Len(moves)) + 1]

LegalChoices(st, moves) ==
  IF moves = <<>> THEN {}
  ELSE IF st.moves_played < FreePlies THEN {moves[i] : i \in 1 .. Len(moves)}
  ELSE {ScriptedMove(st, moves)}

\* Cells with valid coordinates that are no legal move: the first occupied cell
\* and the first empty cell outside the legal set.
FirstWhere(P(_)) ==
  IF \E i \in 1 .. (SIZE * SIZE) : P(AllMoves[i])
  THEN {AllMoves[CHOOSE i \in 1 .. (SIZE * SIZE) :
                   P(AllMoves[i]) /\ \A j \in 1 .. (i - 1) : ~P(AllMoves[j])]}
  ELSE {}

IllegalChoices(st, moves) ==
  FirstWhere(LAMBDA m : st.fields[m.row][m.col] # 0)
  \cup FirstWhere(LAMBDA m : st.fields[m.row][m.col] = 0 /\ ~Find(moves, m))

\* Reads that break the framing: error, end of file, no newline, bytes after
\* the newline, two lines in one read.
BadFraming ==
  { [n |-> 0 - 1, buf |-> <<>>],
    Bytes(<<>>),
    Bytes(<<CharA + 3, Char1 + 2>>),
    Bytes(<<CharA + 3, Char1 + 2, NL, CharA + 4>>),
    Bytes(<<CharA + 3, Char1 + 2, NL, CharA + 2, Char1 + 4, NL>>) }

\* Well-framed lines that are no move: wrong length, row or column out of range.
BadSyntax ==
  { Bytes(<<NL>>),
    Bytes(<<CharA + 3, NL>>),
    Bytes(<<CharA + 3, Char1 + 2, Char1 + 2, NL>>),
    Bytes(<<CharA + 8, Char1, NL>>),
    Bytes(<<CharA - 1, Char1, NL>>),
    Bytes(<<CharA, Char1 + 8, NL>>),
    Bytes(<<CharA, Char1 - 1, NL>>),
    Bytes(<<CharA + 32, Char1 + 2, NL>>) }

ReadInputs(st) ==
  LET moves == ListValidMoves(st)
  IN  BadFraming \cup BadSyntax
      \cup {Bytes(FormatMove(m) \o <<NL>>) : m \in LegalChoices(st, moves) \cup IllegalChoices(st, moves)}

\* The read delivered exactly one complete line: its last byte is the only newline.
OneLine(rd) == rd.n >= 1 /\ rd.buf[rd.n] = NL /\ \A k \in 1 .. (rd.n - 1) : rd.buf[k] # NL

(***************************************************************************)
(* RunGame.                                                                *)
(***************************************************************************)
Init ==
  /\ pc = "spawn1"
  /\ state = InitialState
  /\ history = <<>>
  /\ started = FALSE
  /\ next_player = 0
  /\ line = <<>>
  /\ last_read = NoRead
  /\ valid_moves = <<>>
  /\ spawned = [i \in 0 .. 1 |-> FALSE]
  /\ quits = [i \in 0 .. 1 |-> 0]
  /\ result = NoResult
  /\ fail = NoFail
  /\ io = <<>>
  /\ rpc = "off"
  /\ board = InitialBoard
  /\ listed = NoList
  /\ last = NoProbe
  /\ stack = <<>>
  /\ ret = 0
  /\ sel = NoSelect
  /\ my_player = NONE
  /\ tour = NoTour
  /\ codec = NoCodec
  /\ status = NoStatus
  /\ procs = NoProcs

\* Mutant: the signs of the forfeit scores swapped.
FinalScoreSwapped(st) ==
  IF IsGameOver(st) THEN CalculateScore(st)
  ELSE IF GetNextPlayer(st) = 0 THEN 99 ELSE 0 - 99

\* The score RunGame computes after the loop.
FinalScore(st) ==
  IF IsGameOver(st) THEN CalculateScore(st)
  ELSE LET failing_player == GetNextPlayer(st)
       IN  IF failing_player = 0 THEN 0 - 99 ELSE 99

\* `return {EncodeHistory(history), score, ...}`.
GameResult(st, hist) == [transcript |-> EncodeHistory(hist), score |-> FinalScore(st)]

\* SpawnPlayer: "ok" returns the Player; "no_child" is a failed pipe() or
\* fork(), "close_fail" a failed close() in the parent after the fork; both
\* end the arbiter with exit(1).
SpawnOutcomes == {"ok", "no_child", "close_fail"}

SpawnPlayer(i, outcome, pc_next) ==
  /\ spawned' = [spawned EXCEPT ![i] = (outcome # "no_child")]
  /\ pc' = IF outcome = "ok" THEN pc_next ELSE "exited"
  /\ UNCHANGED <<state, history, started, next_player, line, last_read, valid_moves,
                 quits, result, fail, io>>
  /\ UNCHANGED <<playerVars, restVars>>

Spawn1 == pc = "spawn1" /\ \E outcome \in SpawnOutcomes : SpawnPlayer(0, outcome, "spawn2")

Spawn2 == pc = "spawn2" /\ \E outcome \in SpawnOutcomes : SpawnPlayer(1, outcome, "loop")

\* Leaving the loop, by its condition or by a break: the score is computed and
\* the result built; the destructors of quit2 and quit1 run next.
Leave(st, hist) ==
  /\ result' = GameResult(st, hist)
  /\ pc' = "quit2"

\* Mutant: `started = true` forgotten.
WriteStartForgets(ok) ==
  /\ pc = "loop"
  /\ ~IsGameOver(state)
  /\ ~started
  /\ next_player' = GetNextPlayer(state)
  /\ io' = Append(io, <<"write", 0, StartMsg>>)
  /\ IF ok
     THEN pc' = "read" /\ UNCHANGED <<result, fail>>
     ELSE fail' = [step |-> "start_write", player |-> 0] /\ Leave(state, history)
  /\ UNCHANGED <<state, history, started, line, last_read, valid_moves, spawned, quits>>
  /\ UNCHANGED <<playerVars, restVars>>

\* Head of the loop with `started` false: Write(players[0], "Start\n").
WriteStart(ok) ==
  /\ pc = "loop"
  /\ ~IsGameOver(state)
  /\ ~started
  /\ next_player' = GetNextPlayer(state)
  /\ io' = Append(io, <<"write", 0, StartMsg>>)
  /\ IF ok
     THEN /\ started' = TRUE
          /\ pc' = "read"
          /\ UNCHANGED <<result, fail>>
     ELSE /\ fail' = [step |-> "start_write", player |-> 0]
          /\ Leave(state, history)
          /\ UNCHANGED started
  /\ UNCHANGED <<state, history, line, last_read, valid_moves, spawned, quits>>
  /\ UNCHANGED <<playerVars, restVars>>

\* Mutant: a move that ValidateMove rejects is pushed to the history all the
\* same.
ReadMoveKeepsRejected(rd) ==
  /\ pc = "read" \/ (pc = "loop" /\ ~IsGameOver(state) /\ started)
  /\ LET np == GetNextPlayer(state)
         ln == ReadLine(rd)
         parsed == ParseMove(ln)
         moves == ListValidMoves(state)
         after == ExecuteMove(state, parsed.move)
     IN  /\ next_player' = np
         /\ io' = Append(io, <<"read", np>>)
         /\ line' = ln
         /\ last_read' = rd
         /\ IF ~parsed.ok
            THEN /\ fail' = [step |-> IF OneLine(rd) THEN "parse" ELSE "read", player |-> np]
                 /\ Leave(state, history)
                 /\ UNCHANGED <<state, history, valid_moves>>
            ELSE IF ~Find(moves, parsed.move)
            THEN /\ valid_moves' = moves
                 /\ fail' = [step |-> "validate", player |-> np]
                 /\ history' = Append(history, parsed.move)
                 /\ Leave(state, Append(history, parsed.move))
                 /\ UNCHANGED state
            ELSE /\ valid_moves' = moves
                 /\ state' = after
                 /\ history' = Append(history, parsed.move)
                 /\ IF ~IsGameOver(after)
                    THEN pc' = "forward" /\ UNCHANGED result
                    ELSE Leave(after, Append(history, parsed.move))
                 /\ UNCHANGED fail
  /\ UNCHANGED <<started, spawned, quits>>
  /\ UNCHANGED <<playerVars, restVars>>

\* ReadLine(players[next_player]), ParseMove, ValidateMove, ExecuteMove,
\* history.push_back and the test `if (!IsGameOver(state))`.
ReadMove(rd) ==
  /\ pc = "read" \/ (pc = "loop" /\ ~IsGameOver(state) /\ started)
  /\ \E np \in {GetNextPlayer(state)} : \E ln \in {ReadLine(rd)} :
     \E parsed \in {ParseMove(ln)} : \E moves \in {ListValidMoves(state)} :
         /\ next_player' = np
         /\ io' = Append(io, <<"read", np>>)
         /\ line' = ln
         /\ last_read' = rd
         /\ IF ~parsed.ok
            THEN /\ fail' = [step |-> IF OneLine(rd) THEN "parse" ELSE "read", player |-> np]
                 /\ Leave(state, history)
                 /\ UNCHANGED <<state, history, valid_moves>>
            ELSE IF ~Find(moves, parsed.move)
            THEN /\ valid_moves' = moves
                 /\ fail' = [step |-> "validate", player |-> np]
                 /\ Leave(state, history)
                 /\ UNCHANGED <<state, history>>
            ELSE \E after \in {ExecuteMove(state, parsed.move)} :
                   /\ valid_moves' = moves
                   /\ state' = after
                   /\ history' = Append(history, parsed.move)
                   /\ IF ~IsGameOver(after)
                      THEN pc' = "forward" /\ UNCHANGED result
                      ELSE Leave(after, Append(history, parsed.move))
                   /\ UNCHANGED fail
  /\ UNCHANGED <<started, spawned, quits>>
  /\ UNCHANGED <<playerVars, restVars>>

\* Mutant: the move is sent back to the player who made it.
ForwardMoveToMover(ok) ==
  /\ pc = "forward"
  /\ io' = Append(io, <<"write", next_player, FormatMove(history[Len(history)]) \o <<NL>>>>)
  /\ IF ok
     THEN pc' = "loop" /\ UNCHANGED <<result, fail>>
     ELSE /\ fail' = [step |-> "forward_write", player |-> 1 - next_player]
          /\ Leave(state, history)
  /\ UNCHANGED <<state, history, started, next_player, line, last_read, valid_moves,
                 spawned, quits>>
  /\ UNCHANGED <<playerVars, restVars>>

\* Write(players[1 - next_player], FormatMove(move) + '\n').
ForwardMove(ok) ==
  /\ pc = "forward"
  /\ io' = Append(io, <<"write", 1 - next_player, FormatMove(history[Len(history)]) \o <<NL>>>>)
  /\ IF ok
     THEN pc' = "loop" /\ UNCHANGED <<result, fail>>
     ELSE /\ fail' = [step |-> "forward_write", player |-> 1 - next_player]
          /\ Leave(state, history)
  /\ UNCHANGED <<state, history, started, next_player, line, last_read, valid_moves,
                 spawned, quits>>
  /\ UNCHANGED <<playerVars, restVars>>

\* What waitpid gives Quit: the child left with exit code 0, or something
\* Quit reports on stderr (waitpid failed, or the child left with another
\* code or by a signal).
WaitOutcomes == {"exit0", "reported"}

\* Mutant: a failed Write makes Quit return at once.
QuitGivesUp(i, pc_next) ==
  /\ \E write_ok \in BOOLEAN : \E wait \in WaitOutcomes :
       /\ status' = [write_ok |-> write_ok, wait |-> wait]
       /\ io' = IF write_ok
                THEN io \o << <<"write", i, QuitMsg>>, <<"close_in", i>>, <<"waitpid", i>>, <<"close_out", i>> >>
                ELSE io \o << <<"write", i, QuitMsg>> >>
  /\ quits' = [quits EXCEPT ![i] = @ + 1]
  /\ pc' = pc_next
  /\ line' = <<>>
  /\ last_read' = NoRead
  /\ UNCHANGED <<state, history, started, next_player, valid_moves, spawned, result, fail>>
  /\ UNCHANGED <<playerVars, my_player, tour, codec, procs>>

\* Quit(player): Write "Quit\n" (its result is ignored), close(fd_in),
\* waitpid (its status is only reported), close(fd_out).
Quit(i, pc_next) ==
  /\ \E write_ok \in BOOLEAN : \E wait \in WaitOutcomes :
       status' = [write_ok |-> write_ok, wait |-> wait]
  /\ io' = io \o << <<"write", i, QuitMsg>>, <<"close_in", i>>, <<"waitpid", i>>, <<"close_out", i>> >>
  /\ quits' = [quits EXCEPT ![i] = @ + 1]
  /\ pc' = pc_next
  /\ line' = <<>>
  /\ last_read' = NoRead
  /\ UNCHANGED <<state, history, started, next_player, valid_moves, spawned, result, fail>>
  /\ UNCHANGED <<playerVars, my_player, tour, codec, procs>>

\* ~PlayerQuitter of quit2, then of quit1 (reverse order of construction).
Quit2 == pc = "quit2" /\ Quit(1, "quit1")

Quit1 == pc = "quit1" /\ Quit(0, "returned")

Next ==
  \/ Spawn1
  \/ Spawn2
  \/ \E ok \in BOOLEAN : WriteStart(ok)
  \/ \E rd \in ReadInputs(state) : ReadMove(rd)
  \/ \E ok \in BOOLEAN : ForwardMove(ok)
  \/ Quit2
  \/ Quit1

Spec == Init /\ [][Next]_vars
(***************************************************************************)
(* Claims about RunGame (specification Spec).                              *)
(***************************************************************************)
\* This step read a line from a player.
ReadStep == Len(io') = Len(io) + 1 /\ io'[Len(io')][1] = "read"

\* A line that is a move code: a letter A..H followed by a digit 1..8.
WellFormedMove(ln) ==
  Len(ln) = 2 /\ ln[1] \in CharA .. (CharA + 7) /\ ln[2] \in Char1 .. (Char1 + 7)

LegalSet(st) == {ListValidMoves(st)[i] : i \in 1 .. Len(ListValidMoves(st))}

Rejected(ln, st) ==
  ~WellFormedMove(ln) \/ [row |-> ln[1] - CharA, col |-> ln[2] - Char1] \notin LegalSet(st)

ForfeitOf(player) == IF player = 0 THEN 0 - 99 ELSE 99

Ended == pc \in {"quit2", "quit1", "returned"}

Aborted == Ended /\ state.moves_played < MAX_MOVES

\* C1: whenever the line read from the mover is no well-formed move, or is a
\* move outside the legal set, the loop is left in that very step with the
\* board untouched and the score -99 when the move count is even, +99 when it
\* is odd.
C1_BadLineForfeits ==
  [][(ReadStep /\ Rejected(line', state))
       => /\ pc' = "quit2"
          /\ state' = state
          /\ state.moves_played \in 0 .. (MAX_MOVES - 1)
          /\ result'.score = IF state.moves_played % 2 = 0 THEN 0 - 99 ELSE 99]_vars

\* An illegal move of the second mover at the last ply was answered by +99.
C1_Witness ==
  pc = "quit2" /\ fail.step = "validate" /\ state.moves_played = MAX_MOVES - 1 /\ result.score = 99

\* The side a forfeit score blames.
Forfeiter == IF result.score = 0 - 99 THEN 0 ELSE 1

C3_QuitOncePerChild ==
  /\ \A i \in 0 .. 1 : quits[i] <= 1 /\ (quits[i] = 1 => spawned[i])
  /\ pc \in {"returned", "exited"} => \A i \in 0 .. 1 : spawned[i] => quits[i] = 1

StartWrites == {k \in 1 .. Len(io) : io[k][1] = "write" /\ io[k][3] = StartMsg}

\* C4: Start is written at most once, to the first mover, as the first
\* operation on any pipe (so before every read and every move); once the loop
\* has passed its first write the count is exactly one.
C4_StartOnceFirst ==
  /\ Cardinality(StartWrites) <= 1
  /\ \A k \in StartWrites : k = 1 /\ io[k][2] = 0
  /\ (Ended \/ pc \in {"read", "forward"} \/ state.moves_played > 0)
       => Cardinality(StartWrites) = 1

\* A complete match, with its single Start.
C4_Witness ==
  pc = "returned" /\ state.moves_played = MAX_MOVES /\ StartWrites = {1}

\* C5: RunGame returns either a transcript of exactly 60 moves with the disc
\* differential of the board, no step having failed, or a transcript of
\* fewer than 60 moves with a score of magnitude 99.
C5_CompletedIffSixtyMoves ==
  Ended =>
    \/ /\ state.moves_played = MAX_MOVES
       /\ Len(history) = MAX_MOVES
       /\ Len(result.transcript) = 2 * MAX_MOVES
       /\ fail = NoFail
       /\ result.score =
            Cardinality({<<r, c>> \in Rows \X Cols : state.fields[r][c] = 1})
            - Cardinality({<<r, c>> \in Rows \X Cols : state.fields[r][c] = 2})
    \/ /\ state.moves_played < MAX_MOVES
       /\ Len(history) = state.moves_played
       /\ Len(result.transcript) = 2 * Len(history)
       /\ fail # NoFail
       /\ result.score \in {0 - 99, 99}

C5_Witness ==
  pc = "returned" /\ Len(history) = MAX_MOVES /\ Len(result.transcript) = 2 * MAX_MOVES

\* C6: a read that does not deliver exactly one complete line makes ReadLine
\* return the empty line, and RunGame leaves the loop in that step, the
\* player that was read forfeiting; no read follows once the loop is left.
C6_BadFramingAborts ==
  [][/\ (ReadStep /\ ~OneLine(last_read'))
          => /\ line' = <<>>
             /\ pc' = "quit2"
             /\ state' = state
             /\ fail'.step = "read"
             /\ result'.score = ForfeitOf(io'[Len(io')][2])
     /\ Ended => ~ReadStep]_vars

\* Bytes after the newline, read from the second mover at the last ply.
C6_Witness ==
  /\ pc = "quit2"
  /\ last_read = Bytes(<<CharA + 3, Char1 + 2, NL, CharA + 4>>)
  /\ state.moves_played = MAX_MOVES - 1
  /\ result.score = 99

\* ValidateMove has just run on the initial position.
ValidatedInitial ==
  \/ pc = "forward" /\ Len(history) = 1
  \/ pc = "quit2" /\ fail.step = "validate" /\ state.moves_played = 0

SeedOffsets == << <<0, 0>>, <<0, 1>>, <<1, 0>>, <<1, 1>>, <<0, 2>>, <<0, 3>>, <<2, 0>>, <<2, 2>> >>

\* [r0, c0, sr, sc]: seed k lies at (r0 + sr * dr_k, c0 + sc * dc_k).
Anchors == { <<SIZE \div 2 - 1, SIZE \div 2 - 1, 1, 1>>, <<0, 0, 1, 1>>, <<SIZE - 1, SIZE - 1, 0 - 1, 0 - 1>> }

SeedCell(a, k) == <<a[1] + a[3] * SeedOffsets[k][1], a[2] + a[4] * SeedOffsets[k][2]>>

\* The arbiter's fields with disc f[k] on seed k.
SeedFields(a, f) ==
  [r \in Rows |-> [c \in Cols |->
     IF \E k \in 1 .. NumSeeds : SeedCell(a, k) = <<r, c>>
     THEN f[CHOOSE k \in 1 .. NumSeeds : SeedCell(a, k) = <<r, c>>]
     ELSE 0]]

\* The player's Board of an arbiter's State: 1 is WHITE, 2 is BLACK, and
\* WHITE is to move when moves_played is even.
PlayerOf(v) == IF v = 1 THEN WHITE ELSE IF v = 2 THEN BLACK ELSE NONE

BoardOf(st) ==
  [fields |-> [r \in PlayerRows |-> [c \in PlayerCols |-> PlayerOf(st.fields[r][c])]],
   next_player |-> IF st.moves_played % 2 = 0 THEN WHITE ELSE BLACK]

\* Every variable of RunGame, which the probes leave alone.
GameOff ==
  /\ pc = "off"
  /\ history = <<>>
  /\ started = FALSE
  /\ next_player = 0
  /\ line = <<>>
  /\ last_read = NoRead
  /\ valid_moves = <<>>
  /\ spawned = [i \in 0 .. 1 |-> FALSE]
  /\ quits = [i \in 0 .. 1 |-> 0]
  /\ result = NoResult
  /\ fail = NoFail
  /\ io = <<>>

\* The characters of the strings given to ParseMove: the ends of A..H and of
\* 1..8, their neighbours, and a lower-case letter.
CodeChars == {CharA - 1, CharA, CharA + 7, CharA + 8, Char1 - 1, Char1, Char1 + 7, Char1 + 8, CharA + 32}

CodeStrings == UNION {[1 .. n -> CodeChars] : n \in 0 .. MaxCodeLen}

\* A position late in a game: the first `holes` cells in row-major order are
\* empty and every other cell holds a disc.
NearlyFull(holes) ==
  [fields |-> [r \in Rows |-> [c \in Cols |->
                 IF r * SIZE + c < holes THEN 0 ELSE 1 + ((r + c) % 2)]],
   moves_played |-> MAX_MOVES - holes]

\* The positions SelectMove is called on: the initial one, a full board and a
\* board with two empty cells.
RootStates == {InitialState, NearlyFull(0), NearlyFull(2)}

RulesInit ==
  /\ \/ /\ \E a \in Anchors : \E f \in [1 .. NumSeeds -> 0 .. 2] : \E mp \in 0 .. 1 :
            state = [fields |-> SeedFields(a, f), moves_played |-> mp]
        /\ rpc = "idle"
        /\ codec = NoCodec
     \/ /\ state \in RootStates
        /\ rpc = "root"
        /\ codec = NoCodec
     \/ /\ state = InitialState
        /\ rpc = "format"
        /\ \E i \in 1 .. (SIZE * SIZE) : codec = [NoCodec EXCEPT !.move = AllMoves[i]]
     \/ /\ state = InitialState
        /\ rpc = "formatted"
        /\ \E s \in CodeStrings : codec = [NoCodec EXCEPT !.arbiter_code = s, !.player_code = s]
  /\ board = BoardOf(state)
  /\ listed = NoList
  /\ last = NoProbe
  /\ stack = <<>>
  /\ ret = 0
  /\ sel = NoSelect
  /\ my_player = NONE
  /\ tour = NoTour
  /\ status = NoStatus
  /\ procs = NoProcs
  /\ GameOff

\* The cells a probe may move on: every empty cell next to a disc, and the
\* first and the last empty cell of the board.
ProbeMoves(st) ==
  LET empty == SelectSeq(AllMoves, LAMBDA m : st.fields[m.row][m.col] = 0)
  IN  {AllMoves[i] : i \in {j \in 1 .. (SIZE * SIZE) :
            st.fields[AllMoves[j].row][AllMoves[j].col] = 0
            /\ HasOccupiedNeighbor(st, AllMoves[j].row, AllMoves[j].col)}}
      \cup (IF empty = <<>> THEN {} ELSE {empty[1], empty[Len(empty)]})

\* ListValidMoves(state) in the arbiter and ListMoves(board, moves) in the player.
ProbeList ==
  /\ rpc = "idle"
  /\ listed' = [valid_moves |-> ListValidMoves(state), moves |-> ListMoves(board)]
  /\ rpc' = "listed"
  /\ UNCHANGED <<state, board, last, stack, ret, sel>>
  /\ UNCHANGED <<gameVars, restVars>>

\* ExecuteMove(state, move) in the arbiter and DoMove(&board, move) in the player.
ProbeMove(m) ==
  /\ rpc = "listed"
  /\ DoMoveCheck(board, m)
  /\ last' = [move |-> m, state |-> state, board |-> board]
  /\ state' = ExecuteMove(state, m)
  /\ board' = DoMove(board, m)
  /\ rpc' = "moved"
  /\ UNCHANGED <<listed, stack, ret, sel>>
  /\ UNCHANGED <<gameVars, restVars>>

\* UndoMove(&board, move) in the player.
ProbeUndo ==
  /\ rpc = "moved"
  /\ IF UndoMoveCheck(board, last.move)
     THEN board' = UndoMove(board, last.move) /\ rpc' = "undone"
     ELSE rpc' = "aborted" /\ UNCHANGED board
  /\ UNCHANGED <<state, listed, last, stack, ret, sel>>
  /\ UNCHANGED <<gameVars, restVars>>

(***************************************************************************)
(* SelectMove and Search, one step per DoMove and per UndoMove.  A frame   *)
(* holds the locals of one call: moves, the loop index i (from 1),         *)
(* best_value, the depth it hands to the calls of Search it makes, and the *)
(* board as it was when the call began.                                    *)
(***************************************************************************)
Frame(moves, depth, b) ==
  [moves |-> moves, i |-> 1, best_value |-> MIN_VALUE - 1, depth |-> depth, base |-> b]

Rotate(moves, k) ==
  [j \in 1 .. Len(moves) |-> moves[((j - 1 + k) % Len(moves)) + 1]]

Reverse(moves) == [j \in 1 .. Len(moves) |-> moves[Len(moves) + 1 - j]]

\* The k-th order std::random_shuffle may leave the moves in: the list as it
\* is, reversed, rotated by one place, that reversed, and so on.
Shuffle(moves, k) ==
  IF moves = <<>> THEN moves
  ELSE IF k % 2 = 1 THEN Reverse(Rotate(moves, k \div 2))
  ELSE Rotate(moves, k \div 2)

Top == stack[Len(stack)]

\* Mutant: the root candidates are searched one ply less deep.
SelectMoveCallShallow(k) ==
  /\ rpc = "root"
  /\ LET moves == ListMoves(board)
     IN  stack' = <<Frame(Shuffle(moves, k), SEARCH_DEPTH - 1, board)>>
  /\ sel' = [sel EXCEPT !.original_board = board]
  /\ rpc' = "do"
  /\ UNCHANGED <<state, board, listed, last, ret>>
  /\ UNCHANGED <<gameVars, restVars>>

\* SelectMove up to its loop: the copy of the board, ListMoves and the shuffle.
SelectMoveCall(k) ==
  /\ rpc = "root"
  /\ LET moves == ListMoves(board)
     IN  stack' = <<Frame(Shuffle(moves, k), SEARCH_DEPTH, board)>>
  /\ sel' = [sel EXCEPT !.original_board = board]
  /\ rpc' = "do"
  /\ UNCHANGED <<state, board, listed, last, ret>>
  /\ UNCHANGED <<gameVars, restVars>>

\* DoMove(board, move) of the loop on top of the stack, and the call of
\* Search it is followed by, up to Search's own loop.
SearchDo ==
  /\ rpc = "do"
  /\ Top.i <= Len(Top.moves)
  /\ LET move == Top.moves[Top.i]
         b == DoMove(board, move)
         depth == Top.depth
         moves == ListMoves(b)
     IN  IF ~DoMoveCheck(board, move)
         THEN rpc' = "aborted" /\ UNCHANGED <<board, stack, ret>>
         ELSE /\ board' = b
              /\ IF depth <= 0 \/ Len(moves) <= 0
                 THEN /\ ret' = Evaluate(b)
                      /\ rpc' = "undo"
                      /\ UNCHANGED stack
                 ELSE /\ stack' = Append(stack, Frame(moves, depth - 1, b))
                      /\ UNCHANGED <<ret, rpc>>
  /\ UNCHANGED <<state, listed, last, sel>>
  /\ UNCHANGED <<gameVars, restVars>>

\* `int value = -Search(...)`, UndoMove(board, move) and the update of
\* best_value (and of *best_move in SelectMove).
SearchUndo ==
  /\ rpc = "undo"
  /\ LET move == Top.moves[Top.i]
         value == 0 - ret
     IN  IF ~UndoMoveCheck(board, move)
         THEN rpc' = "aborted" /\ UNCHANGED <<board, stack, sel>>
         ELSE /\ board' = UndoMove(board, move)
              /\ stack' = [stack EXCEPT ![Len(stack)] =
                             [@ EXCEPT !.i = @ + 1,
                                       !.best_value = IF value > @ THEN value ELSE @]]
              /\ sel' = IF Len(stack) = 1 /\ value > Top.best_value
                        THEN [sel EXCEPT !.best_move = move]
                        ELSE sel
              /\ rpc' = "do"
  /\ UNCHANGED <<state, listed, last, ret>>
  /\ UNCHANGED <<gameVars, restVars>>

\* The end of Search's loop: its two CHECKs and `return best_value`.
SearchReturn ==
  /\ rpc = "do"
  /\ Len(stack) > 1
  /\ Top.i > Len(Top.moves)
  /\ IF Top.best_value >= MIN_VALUE /\ Top.best_value <= MAX_VALUE
     THEN /\ ret' = Top.best_value
          /\ stack' = SubSeq(stack, 1, Len(stack) - 1)
          /\ rpc' = "undo"
     ELSE rpc' = "aborted" /\ UNCHANGED <<stack, ret>>
  /\ UNCHANGED <<state, board, listed, last, sel>>
  /\ UNCHANGED <<gameVars, restVars>>

\* Mutant: `return best_value >= MIN_VALUE - 1`.
SelectMoveReturnAlways ==
  /\ rpc = "do"
  /\ Len(stack) = 1
  /\ Top.i > Len(Top.moves)
  /\ IF board = sel.original_board
     THEN /\ sel' = [sel EXCEPT !.found = (Top.best_value >= MIN_VALUE - 1)]
          /\ rpc' = "selected"
     ELSE rpc' = "aborted" /\ UNCHANGED sel
  /\ UNCHANGED <<state, board, listed, last, stack, ret>>
  /\ UNCHANGED <<gameVars, restVars>>

\* The end of SelectMove's loop: CHECK(board == original_board) and
\* `return best_value >= MIN_VALUE`.
SelectMoveReturn ==
  /\ rpc = "do"
  /\ Len(stack) = 1
  /\ Top.i > Len(Top.moves)
  /\ IF board = sel.original_board
     THEN /\ sel' = [sel EXCEPT !.found = (Top.best_value >= MIN_VALUE)]
          /\ rpc' = "selected"
     ELSE rpc' = "aborted" /\ UNCHANGED sel
  /\ UNCHANGED <<state, board, listed, last, stack, ret>>
  /\ UNCHANGED <<gameVars, restVars>>

\* FormatMove(move) in the arbiter and in the player.
ProbeFormat ==
  /\ rpc = "format"
  /\ codec' = [codec EXCEPT !.arbiter_code = FormatMove(codec.move),
                            !.player_code = PlayerFormatMove(codec.move)]
  /\ rpc' = "formatted"
  /\ UNCHANGED <<state, board, listed, last, stack, ret, sel, my_player, tour, status, procs>>
  /\ UNCHANGED gameVars

\* ParseMove(s, &move) in the arbiter and in the player.
ProbeParse ==
  /\ rpc = "formatted"
  /\ codec' = [codec EXCEPT !.arbiter = ParseMove(codec.arbiter_code),
                            !.player = PlayerParseMove(codec.player_code)]
  /\ rpc' = "parsed"
  /\ UNCHANGED <<state, board, listed, last, stack, ret, sel, my_player, tour, status, procs>>
  /\ UNCHANGED gameVars

RulesNext ==
  \/ ProbeFormat
  \/ ProbeParse
  \/ ProbeList
  \/ \E m \in ProbeMoves(state) : ProbeMove(m)
  \/ ProbeUndo
  \/ \E k \in 0 .. MaxShuffle : SelectMoveCall(k)
  \/ SearchDo
  \/ SearchUndo
  \/ SearchReturn
  \/ SelectMoveReturn

SpecRules == RulesInit /\ [][RulesNext]_vars

(***************************************************************************)
(* The player (player.cc): main, one step per iteration of its loop.  io   *)
(* logs what it reads from stdin and writes to stdout, rpc is "main" while *)
(* the loop runs and then tells how the program ended, and sel.best_move   *)
(* is main's `move`.                                                       *)
(***************************************************************************)
StartLine == SubSeq(StartMsg, 1, Len(StartMsg) - 1)
QuitLine == SubSeq(QuitMsg, 1, Len(QuitMsg) - 1)

\* std::getline at end of input (no line: the one sequence here that holds
\* no character code).
EndOfInput == <<0 - 1>>

\* Lines that are neither Start nor Quit nor a move code.
PlayerGarbage ==
  { <<>>,
    SubSeq(StartLine, 1, 4),
    StartLine \o <<32>>,
    [StartLine EXCEPT ![1] = @ + 32],
    QuitLine \o <<13>>,
    [QuitLine EXCEPT ![1] = @ + 32],
    <<CharA + 3>>,
    <<CharA + 3, Char1 + 2, Char1 + 2>>,
    <<CharA + 3, Char1 + 2, 13>>,
    <<CharA + 8, Char1>>,
    <<CharA - 1, Char1>>,
    <<CharA, Char1 + 8>>,
    <<CharA, Char1 - 1>>,
    <<Char1 + 2, CharA + 3>>,
    <<CharA + 35, Char1 + 2>>,
    <<32, CharA + 3, Char1 + 2>>,
    StartLine \o QuitLine,
    <<9>> }

\* What the player may find on stdin with board b: the end of input, Start,
\* Quit, garbage, the first legal move, and two well-formed moves that are
\* not legal (the first occupied cell, the first empty cell that is no move).
PlayerInputs(b) ==
  LET moves == ListMoves(b)
      legal == IF moves = <<>> THEN {} ELSE {moves[1]}
      bad == {PlayerCells[i] : i \in {j \in 1 .. (H * W) :
                /\ \A n \in 1 .. Len(moves) : moves[n] # PlayerCells[j]
                /\ \A n \in 1 .. (j - 1) :
                     \/ \E x \in 1 .. Len(moves) : moves[x] = PlayerCells[n]
                     \/ (b.fields[PlayerCells[n].row][PlayerCells[n].col] = NONE)
                          # (b.fields[PlayerCells[j].row][PlayerCells[j].col] = NONE)}}
  IN  {EndOfInput, StartLine, QuitLine} \cup PlayerGarbage
      \cup {PlayerFormatMove(m) : m \in legal \cup bad}

\* The lines written to stdout so far.
Emitted == Len(SelectSeq(io, LAMBDA e : e[1] = "write"))

PlayerInit ==
  /\ rpc = "main"
  /\ my_player = NONE
  /\ board = InitialBoard
  /\ sel = NoSelect
  /\ io = <<>>
  /\ line = <<>>
  /\ pc = "off"
  /\ state = InitialState
  /\ history = <<>>
  /\ started = FALSE
  /\ next_player = 0
  /\ last_read = NoRead
  /\ valid_moves = <<>>
  /\ spawned = [i \in 0 .. 1 |-> FALSE]
  /\ quits = [i \in 0 .. 1 |-> 0]
  /\ result = NoResult
  /\ fail = NoFail
  /\ listed = NoList
  /\ last = NoProbe
  /\ stack = <<>>
  /\ ret = 0
  /\ tour = NoTour
  /\ codec = NoCodec
  /\ status = NoStatus
  /\ procs = NoProcs

\* CHECK(MoveIsValid(board, move)); DoMove(&board, move); at the end of an iteration.
MainApply(move) ==
  IF MoveIsValid(board, move)
  THEN board' = DoMove(board, move) /\ rpc' = "main"
  ELSE rpc' = "aborted" /\ UNCHANGED board

\* Mutant: the identities exchanged.
AssignPlayerSwapped(ln) == IF ln = StartLine THEN BLACK ELSE WHITE

\* The identity taken from the first line.
AssignPlayer(ln) == IF ln = StartLine THEN WHITE ELSE BLACK

\* An iteration with my_player == board.next_player: SelectMove, the move
\* written to stdout, and the move applied.
MainSelect ==
  /\ rpc = "main"
  /\ my_player = board.next_player
  /\ Emitted < MaxSelects
  /\ \E moves \in {ListMoves(board)} : \E values \in {RootValues(board, moves)} :
       \E k \in 0 .. MaxShuffle : \E r \in {SelectMove(Shuffle(moves, k), values, sel.best_move)} :
               /\ sel' = [sel EXCEPT !.original_board = board,
                                     !.best_move = r.best_move,
                                     !.found = r.found]
               /\ IF ~r.found
                  THEN rpc' = "exit0" /\ UNCHANGED <<board, io>>
                  ELSE /\ io' = Append(io, <<"write", PlayerFormatMove(r.best_move)>>)
                       /\ MainApply(r.best_move)
  /\ UNCHANGED <<my_player, line>>
  /\ UNCHANGED <<pc, state, history, started, next_player, last_read, valid_moves,
                 spawned, quits, result, fail, listed, last, stack, ret, tour, codec, status, procs>>

\* An iteration with my_player != board.next_player: std::getline and what
\* follows it.
MainRead(input) ==
  /\ rpc = "main"
  /\ my_player # board.next_player
  /\ io' = Append(io, <<"read", input>>)
  /\ IF input = EndOfInput
     THEN rpc' = "exit1" /\ UNCHANGED <<line, my_player, board, sel>>
     ELSE /\ line' = input
          /\ IF input = QuitLine
             THEN rpc' = "exit0" /\ UNCHANGED <<my_player, board, sel>>
             ELSE IF my_player = NONE /\ input = StartLine
             THEN my_player' = AssignPlayer(input) /\ UNCHANGED <<rpc, board, sel>>
             ELSE LET parsed == PlayerParseMove(input)
                  IN  /\ my_player' = IF my_player = NONE THEN AssignPlayer(input) ELSE my_player
                      /\ IF ~parsed.ok
                         THEN rpc' = "exit1" /\ UNCHANGED <<board, sel>>
                         ELSE /\ sel' = [sel EXCEPT !.best_move = parsed.move]
                              /\ MainApply(parsed.move)
  /\ UNCHANGED <<pc, state, history, started, next_player, last_read, valid_moves,
                 spawned, quits, result, fail, listed, last, stack, ret, tour, codec, status, procs>>

PlayerNext ==
  \/ MainSelect
  \/ \E input \in PlayerInputs(board) : MainRead(input)

SpecPlayer == PlayerInit /\ [][PlayerNext]_vars

(***************************************************************************)
(* Main of the arbiter: the matches of a tournament, one RunGame call per  *)
(* step.  RunGame is taken by what it gives back to Main: a score, or no   *)
(* return at all when SpawnPlayer ends the program.                        *)
(***************************************************************************)
\* 2*x in a 32-bit int, for x > 0: above INT_MAX the product wraps around.
Twice32(x) == IF x <= 1073741823 THEN 2 * x ELSE 2 * (x - 1073741824) - 2147483647 - 1

\* Mutant: one match per round.
GamesOnePerRound(rounds) == IF rounds <= 0 THEN 1 ELSE rounds

\* int games = rounds <= 0 ? 1 : 2*rounds;
Games(rounds) == IF rounds <= 0 THEN 1 ELSE Twice32(rounds)

\* The scores RunGame returns here: the two forfeits, a loss, a tie.
GameScores == {0 - 99, 0 - 2, 0, 99}

Bool2Int(b) == IF b THEN 1 ELSE 0

\* What one match adds to failures[p] and failures[q] together.
FailuresAdded(score) == Bool2Int(score = 0 - 99) + Bool2Int(score = 99)

MainInit ==
  /\ pc = "main"
  /\ \E rounds \in (0 - 1) .. MaxRounds :
       tour = [NoTour EXCEPT !.rounds = rounds, !.games = Games(rounds)]
  /\ state = InitialState
  /\ history = <<>>
  /\ started = FALSE
  /\ next_player = 0
  /\ line = <<>>
  /\ last_read = NoRead
  /\ valid_moves = <<>>
  /\ spawned = [i \in 0 .. 1 |-> FALSE]
  /\ quits = [i \in 0 .. 1 |-> 0]
  /\ result = NoResult
  /\ fail = NoFail
  /\ io = <<>>
  /\ rpc = "off"
  /\ board = InitialBoard
  /\ listed = NoList
  /\ last = NoProbe
  /\ stack = <<>>
  /\ ret = 0
  /\ sel = NoSelect
  /\ my_player = NONE
  /\ codec = NoCodec
  /\ status = NoStatus
  /\ procs = NoProcs

MainUnchanged ==
  UNCHANGED <<state, history, started, next_player, line, last_read, valid_moves,
              spawned, quits, result, fail, io, playerVars, my_player, codec, status, procs>>

\* One iteration of the loop in which RunGame returns a result with `score`.
MainGame(score) ==
  /\ pc = "main"
  /\ tour.game < tour.games
  /\ LET p == tour.game % 2
         q == 1 - p
     IN  tour' = [tour EXCEPT
           !.matches = Append(@, [game |-> tour.game, first |-> p, second |-> q, score |-> score]),
           !.score = [@ EXCEPT ![p] = @ + score, ![q] = @ - score],
           !.score_by_color = [@ EXCEPT ![p] = [@ EXCEPT ![0] = @ + score],
                                        ![q] = [@ EXCEPT ![1] = @ + (0 - score)]],
           !.wins = [@ EXCEPT ![p] = @ + Bool2Int(score > 0), ![q] = @ + Bool2Int(score < 0)],
           !.ties = [@ EXCEPT ![p] = @ + Bool2Int(score = 0), ![q] = @ + Bool2Int(score = 0)],
           !.losses = [@ EXCEPT ![p] = @ + Bool2Int(score < 0), ![q] = @ + Bool2Int(score > 0)],
           !.failures = [@ EXCEPT ![p] = @ + Bool2Int(score = 0 - 99),
                                  ![q] = @ + Bool2Int(score = 99)],
           !.game = @ + 1]
  /\ pc' = "main"
  /\ MainUnchanged

\* One iteration in which a SpawnPlayer of RunGame calls exit(1).
MainGameExits ==
  /\ pc = "main"
  /\ tour.game < tour.games
  /\ pc' = "exited"
  /\ UNCHANGED tour
  /\ MainUnchanged

\* The loop condition fails: the table is printed and Main returns.
MainReturn ==
  /\ pc = "main"
  /\ ~(tour.game < tour.games)
  /\ pc' = "returned"
  /\ UNCHANGED tour
  /\ MainUnchanged

MainNext ==
  \/ \E score \in GameScores : MainGame(score)
  \/ MainGameExits
  \/ MainReturn

SpecMain == MainInit /\ [][MainNext]_vars

(***************************************************************************)
(* A match between two reference players: RunGame and the two children it  *)
(* spawns, each running main of player.cc, joined by their pipes.  What a  *)
(* player finds on stdin is what io says the arbiter wrote to it, and what *)
(* the arbiter reads is what the player wrote to stdout and no read has    *)
(* taken yet.  A read blocks while its pipe is empty and its writer lives, *)
(* waitpid blocks until the child has left, and no system call fails on    *)
(* its own: a write fails only when the child has left.                    *)
(***************************************************************************)
\* The writes of the arbiter to the stdin of player i.
Inbox(i) == SelectSeq(io, LAMBDA e : e[1] = "write" /\ e[2] = i)

\* close(player.fd_in) has been called for player i.
InputClosed(i) == \E k \in 1 .. Len(io) : io[k] = <<"close_in", i>>

\* The reads of the arbiter from the stdout of player i.
Reads(i) == Len(SelectSeq(io, LAMBDA e : e[1] = "read" /\ e[2] = i))

\* std::getline: the line without its newline.
Getline(msg) == SubSeq(msg, 1, Len(msg) - 1)

\* The bytes of `lines` as std::endl puts them into the pipe.
RECURSIVE Piped(_)
Piped(lines) == IF lines = <<>> THEN <<>> ELSE Head(lines) \o <<NL>> \o Piped(Tail(lines))

\* The bytes in the stdout pipe of player i: every read so far took one line.
Unread(i) ==
  IF Reads(i) >= Len(procs[i].out) THEN <<>>
  ELSE Piped(SubSeq(procs[i].out, Reads(i) + 1, Len(procs[i].out)))

\* What read() on the stdout of player i delivers: all the bytes in the pipe,
\* or 0 at end of file when the pipe is empty and the child has left.
MatchReads(i) ==
  IF Unread(i) # <<>> THEN {Bytes(Unread(i))}
  ELSE IF procs[i].at # "main" THEN {Bytes(<<>>)}
  ELSE {}

\* write() to the stdin of player i succeeds while the child holds the other end.
WriteDelivered(i) == spawned[i] /\ procs[i].at = "main"

\* The discs on a Board.
Placed(b) ==
  Cardinality({k \in 1 .. (H * W) : b.fields[PlayerCells[k].row][PlayerCells[k].col] # NONE})

\* *best_move of a SelectMove that returns true is one of the moves ListMoves
\* gave, whichever the values and the shuffle make it: on the initial board
\* any of the first MaxOpenings of them, and afterwards the one a scripted
\* player takes.
SelectedMoves(b, moves) ==
  IF Placed(b) = 4
  THEN {moves[n] : n \in 1 .. (IF Len(moves) < MaxOpenings THEN Len(moves) ELSE MaxOpenings)}
  ELSE {moves[((Placed(b) - 4) % Len(moves)) + 1]}

\* CHECK(MoveIsValid(board, move)); DoMove(&board, move); on the locals p of
\* a player process.
ProcApply(p, move) ==
  IF MoveIsValid(p.board, move)
  THEN [p EXCEPT !.move = move, !.board = DoMove(p.board, move)]
  ELSE [p EXCEPT !.move = move, !.at = "aborted"]

\* Mutant: the player does not put its own move on its board.
MatchSelectNoApply(i) ==
  /\ spawned[i]
  /\ procs[i].at = "main"
  /\ procs[i].my_player = procs[i].board.next_player
  /\ \E p \in {procs[i]} : \E moves \in {ListMoves(procs[i].board)} :
         IF moves = <<>>
         THEN procs' = [procs EXCEPT ![i] = [p EXCEPT !.at = "exit0"]]
         ELSE \E move \in SelectedMoves(p.board, moves) :
                procs' = [procs EXCEPT ![i] =
                            [p EXCEPT !.out = Append(@, PlayerFormatMove(move)), !.move = move]]
  /\ UNCHANGED <<gameVars, state, playerVars, my_player, tour, codec, status>>

\* Player i, an iteration with my_player == board.next_player: SelectMove,
\* "No move possible" and return 0 when it fails, else the move written to
\* stdout and applied.
MatchSelect(i) ==
  /\ spawned[i]
  /\ procs[i].at = "main"
  /\ procs[i].my_player = procs[i].board.next_player
  /\ \E p \in {procs[i]} : \E moves \in {ListMoves(procs[i].board)} :
         IF moves = <<>>
         THEN procs' = [procs EXCEPT ![i] = [p EXCEPT !.at = "exit0"]]
         ELSE \E move \in SelectedMoves(p.board, moves) :
                procs' = [procs EXCEPT ![i] =
                            ProcApply([p EXCEPT !.out = Append(@, PlayerFormatMove(move))], move)]
  /\ UNCHANGED <<gameVars, state, playerVars, my_player, tour, codec, status>>

\* Player i, an iteration with my_player != board.next_player: std::getline
\* (which waits while stdin is empty and open) and what follows it.
MatchGetline(i) ==
  /\ spawned[i]
  /\ procs[i].at = "main"
  /\ procs[i].my_player # procs[i].board.next_player
  /\ procs[i].reads < Len(Inbox(i)) \/ InputClosed(i)
  /\ \E p \in {procs[i]} :
     \E input \in {IF p.reads < Len(Inbox(i)) THEN Getline(Inbox(i)[p.reads + 1][3]) ELSE EndOfInput} :
     \E q \in {[p EXCEPT !.reads = @ + 1, !.line = input]} :
     \E r \in {[q EXCEPT !.my_player = IF @ = NONE THEN AssignPlayer(input) ELSE @]} :
     \E parsed \in {PlayerParseMove(input)} :
       \E after \in {IF input = EndOfInput THEN [p EXCEPT !.at = "exit1"]
                     ELSE IF input = QuitLine THEN [q EXCEPT !.at = "exit0"]
                     ELSE IF p.my_player = NONE /\ input = StartLine THEN r
                     ELSE IF ~parsed.ok THEN [r EXCEPT !.at = "exit1"]
                     ELSE ProcApply(r, parsed.move)} :
         procs' = [procs EXCEPT ![i] = after]
  /\ UNCHANGED <<gameVars, state, playerVars, my_player, tour, codec, status>>

\* RunGame's two SpawnPlayer calls, both returning a Player.
MatchSpawn1 == pc = "spawn1" /\ SpawnPlayer(0, "ok", "spawn2")

MatchSpawn2 == pc = "spawn2" /\ SpawnPlayer(1, "ok", "loop")

MatchWriteStart == WriteStart(WriteDelivered(0))

MatchReadMove == \E rd \in MatchReads(GetNextPlayer(state)) : ReadMove(rd)

MatchForward == ForwardMove(WriteDelivered(1 - next_player))

\* Quit(player) up to its waitpid: Write "Quit\n" and close(fd_in).
QuitWrite(i, pc_next) ==
  /\ status' = [write_ok |-> WriteDelivered(i), wait |-> "none"]
  /\ io' = io \o << <<"write", i, QuitMsg>>, <<"close_in", i>> >>
  /\ quits' = [quits EXCEPT ![i] = @ + 1]
  /\ pc' = pc_next
  /\ line' = <<>>
  /\ last_read' = NoRead
  /\ UNCHANGED <<state, history, started, next_player, valid_moves, spawned, result, fail>>
  /\ UNCHANGED <<playerVars, my_player, tour, codec, procs>>

\* Quit(player) from its waitpid on: waitpid returns when the child has left,
\* its status is reported unless it is exit code 0, and close(fd_out).
QuitWait(i, pc_next) ==
  /\ procs[i].at # "main"
  /\ status' = [status EXCEPT !.wait = IF procs[i].at = "exit0" THEN "exit0" ELSE "reported"]
  /\ io' = io \o << <<"waitpid", i>>, <<"close_out", i>> >>
  /\ pc' = pc_next
  /\ UNCHANGED <<state, history, started, next_player, line, last_read, valid_moves,
                 spawned, quits, result, fail>>
  /\ UNCHANGED <<playerVars, my_player, tour, codec, procs>>

MatchQuitWrite2 == pc = "quit2" /\ QuitWrite(1, "wait2")

MatchQuitWait2 == pc = "wait2" /\ QuitWait(1, "quit1")

MatchQuitWrite1 == pc = "quit1" /\ QuitWrite(0, "wait1")

MatchQuitWait1 == pc = "wait1" /\ QuitWait(0, "returned")

\* The steps of the arbiter, and those of player i.
MatchArbiter ==
  \/ MatchSpawn1
  \/ MatchSpawn2
  \/ MatchWriteStart
  \/ MatchReadMove
  \/ MatchForward
  \/ MatchQuitWrite2
  \/ MatchQuitWait2
  \/ MatchQuitWrite1
  \/ MatchQuitWait1

MatchPlayer(i) == MatchSelect(i) \/ MatchGetline(i)

MatchNext == MatchArbiter \/ \E i \in 0 .. 1 : MatchPlayer(i)

SpecMatch == Init /\ [][MatchNext]_vars

\* The arbiter and the two players are three processes of the operating
\* system: one that is not blocked in a read or in waitpid gets to run.
SpecMatchFair ==
  SpecMatch /\ WF_vars(MatchArbiter) /\ WF_vars(MatchPlayer(0)) /\ WF_vars(MatchPlayer(1))

(***************************************************************************)
(* Properties of the rules, over SpecRules.  The sets below are defined    *)
(* from the boards alone, without the scans of the two engines.            *)
(***************************************************************************)
CellSet == {[row |-> r, col |-> c] : r \in Rows, c \in Cols}

ToSet(seq) == {seq[i] : i \in 1 .. Len(seq)}

Adjacent(m, n) == m # n /\ (m.row - n.row) \in (0 - 1) .. 1 /\ (m.col - n.col) \in (0 - 1) .. 1

\* The empty cells with at least one occupied neighbour.
Candidates(fields) ==
  {m \in CellSet : fields[m.row][m.col] = 0
                   /\ \E n \in CellSet : Adjacent(m, n) /\ fields[n.row][n.col] # 0}

\* The cells other than m whose owner differs between two boards.
Changed(before, after, m) ==
  {n \in CellSet \ {m} : before[n.row][n.col] # after[n.row][n.col]}

\* The candidates whose move changes the owner of at least one disc.
ArbiterFlipping(st) ==
  {m \in Candidates(st.fields) : Changed(st.fields, ExecuteMove(st, m).fields, m) # {}}

PlayerFlipping(b) ==
  {m \in Candidates(b.fields) : Changed(b.fields, DoMove(b, m).fields, m) # {}}

ListedAs(moves, candidates, flipping) ==
  /\ Cardinality(ToSet(moves)) = Len(moves)
  /\ ToSet(moves) \subseteq candidates
  /\ ToSet(moves) = IF flipping # {} THEN flipping ELSE candidates

C8_DoUndoRestores ==
  /\ rpc # "aborted"
  /\ rpc = "undone" => board = last.board
  /\ rpc = "do" => board = Top.base
  /\ rpc = "undo" => board = DoMove(Top.base, Top.moves[Top.i])
  /\ rpc = "selected" => board = sel.original_board

\* SelectMove has returned a move after a search with nested calls.
C8_Witness ==
  /\ rpc = "selected"
  /\ sel.found
  /\ Len(Top.moves) > 1
  /\ Top.i > Len(Top.moves)
  /\ board = sel.original_board

Step(m, d, n) == [row |-> m.row + n * d[1], col |-> m.col + n * d[2]]

\* The length of the run of cells of the board, from m in direction d, that
\* all satisfy P.
RunLength(m, d, P(_)) ==
  CHOOSE k \in 0 .. SIZE :
    /\ \A n \in 1 .. k : Step(m, d, n) \in CellSet /\ P(Step(m, d, n))
    /\ ~(Step(m, d, k + 1) \in CellSet /\ P(Step(m, d, k + 1)))

\* The cells of direction d that lie strictly between m and the farthest disc
\* of `own` in the run of occupied cells that starts next to m.
Between(fields, own, m, d) ==
  LET run == RunLength(m, d, LAMBDA n : fields[n.row][n.col] # 0)
      mine == {n \in 1 .. run : fields[Step(m, d, n).row][Step(m, d, n).col] = own}
      far == IF mine = {} THEN 0 ELSE CHOOSE n \in mine : \A x \in mine : x <= n
  IN  {Step(m, d, n) : n \in 1 .. (far - 1)}

\* The run of discs of the opponent that starts next to m in direction d, if
\* a disc of `own` follows it immediately.
OpposingRun(fields, own, m, d) ==
  LET run == RunLength(m, d, LAMBDA n : fields[n.row][n.col] \notin {0, own})
      next == Step(m, d, run + 1)
  IN  IF next \in CellSet /\ fields[next.row][next.col] = own
      THEN {Step(m, d, n) : n \in 1 .. run}
      ELSE {}

Discs(fields) == Cardinality({n \in CellSet : fields[n.row][n.col] # 0})

\* C11 as stated, for the games of the model: after 60 legal moves from the
\* initial position the board still has an empty cell.
C11_Original ==
  state.moves_played = MAX_MOVES => \E n \in CellSet : state.fields[n.row][n.col] = 0

\* C11: every legal move puts one disc on an empty cell and removes none, so
\* the board holds 4 + moves_played discs in every state of a game; after 60
\* legal moves it holds 64 discs and has no empty cell left.
C11_SixtyMovesFillBoard ==
  /\ Discs(state.fields) = Discs(InitialState.fields) + state.moves_played
  /\ state.moves_played = MAX_MOVES => \A n \in CellSet : state.fields[n.row][n.col] # 0

\* A game that was played to its 60th move.
C11_Witness ==
  /\ pc = "quit2"
  /\ Len(history) = MAX_MOVES
  /\ state.moves_played = MAX_MOVES
  /\ Discs(state.fields) = SIZE * SIZE

(***************************************************************************)
(* Properties of the player's main (specification SpecPlayer).             *)
(***************************************************************************)
DecodeMove(ln) == [row |-> ln[1] - CharA, col |-> ln[2] - Char1]

\* The identity the first line read gives: none when the program ends on it.
IdentityOf(first) ==
  IF first = StartLine THEN WHITE
  ELSE IF first \in {QuitLine, EndOfInput} THEN NONE
  ELSE BLACK

FirstLineRules ==
  /\ io = <<>> => my_player = NONE /\ rpc = "main" /\ board = InitialBoard
  /\ io # <<>> => io[1][1] = "read" /\ my_player = IdentityOf(io[1][2])
  /\ (Len(io) = 1 /\ io[1][2] = StartLine) => rpc = "main" /\ board = InitialBoard
  /\ (Len(io) = 1 /\ IdentityOf(io[1][2]) = BLACK) =>
       IF WellFormedMove(io[1][2])
          /\ \E i \in 1 .. Len(ListMoves(InitialBoard)) :
               ListMoves(InitialBoard)[i] = DecodeMove(io[1][2])
       THEN rpc = "main" /\ board = DoMove(InitialBoard, DecodeMove(io[1][2]))
       ELSE rpc \in {"exit1", "aborted"} /\ board = InitialBoard

\* C12: the player writes nothing before it has read its first line; it is
\* WHITE exactly when that line is Start, and BLACK when that line is anything
\* but Start and Quit, in which case the same line is parsed, validated and
\* applied as the opponent's first move; once my_player is set no step
\* changes it.
C12_IdentityFromFirstLine ==
  /\ []FirstLineRules
  /\ [][my_player # NONE => my_player' = my_player]_vars

\* A player that became BLACK on a move, answered it, and then read Start:
\* it is still BLACK and ends on the line as on any line that is no move.
C12_Witness ==
  /\ my_player = BLACK
  /\ Len(io) = 3
  /\ WellFormedMove(io[1][2])
  /\ io[2][1] = "write"
  /\ io[3] = <<"read", StartLine>>
  /\ rpc = "exit1"

(***************************************************************************)
(* Further properties of the rules and of the search (SpecRules).          *)
(***************************************************************************)
Parsed(move) == [ok |-> TRUE, move |-> move]

\* C13: in the arbiter and in the player, ParseMove of FormatMove(row, col)
\* succeeds and gives (row, col) back for every cell of the board, and
\* ParseMove succeeds exactly on the strings of two characters that are a
\* letter A..H followed by a digit 1..8, giving the cell they name.
C13_MoveCodeRoundTrip ==
  rpc = "parsed" =>
    /\ codec.move # NoMove =>
         /\ codec.arbiter = Parsed(codec.move)
         /\ codec.player = Parsed(codec.move)
    /\ codec.arbiter.ok = WellFormedMove(codec.arbiter_code)
    /\ codec.player.ok = WellFormedMove(codec.player_code)
    /\ codec.arbiter.ok => codec.arbiter.move = DecodeMove(codec.arbiter_code)
    /\ codec.player.ok => codec.player.move = DecodeMove(codec.player_code)

\* The code of the last cell of the board, H8, came back as (7, 7) from both
\* programs.
C13_Witness ==
  /\ rpc = "parsed"
  /\ codec.move = [row |-> SIZE - 1, col |-> SIZE - 1]
  /\ codec.arbiter_code = <<CharA + 7, Char1 + 7>>
  /\ codec.player_code = codec.arbiter_code
  /\ codec.arbiter = Parsed(codec.move)
  /\ codec.player = Parsed(codec.move)

(***************************************************************************)
(* Properties of the tournament (SpecMain).                                *)
(***************************************************************************)
\* C14: with rounds = N > 0 Main runs exactly 2N matches and with
\* rounds <= 0 exactly one; the first configured player moves first in the
\* matches of even index and second in those of odd index; a match that
\* ended in a forfeit (score -99 or +99) is followed by the next match like
\* any other.
C14_MatchesOfATournament ==
  pc \in {"main", "returned", "exited"} =>
    /\ Len(tour.matches) = tour.game
    /\ \A k \in 1 .. Len(tour.matches) :
         /\ tour.matches[k].game = k - 1
         /\ tour.matches[k].first = (IF (k - 1) % 2 = 0 THEN 0 ELSE 1)
         /\ tour.matches[k].second = 1 - tour.matches[k].first
    /\ Len(tour.matches) <= (IF tour.rounds > 0 THEN 2 * tour.rounds ELSE 1)
    /\ pc = "returned" =>
         Len(tour.matches) = (IF tour.rounds > 0 THEN 2 * tour.rounds ELSE 1)

\* A tournament of three rounds has returned after six matches, of which the
\* second and the third were forfeited.
C14_Witness ==
  /\ pc = "returned"
  /\ tour.rounds = 3
  /\ Len(tour.matches) = 6
  /\ tour.matches[2].score = 0 - 99
  /\ tour.matches[3].score = 99
  /\ tour.matches[5].first = 0
  /\ tour.matches[6].first = 1

(***************************************************************************)
(* Further properties of RunGame (Spec).                                   *)
(***************************************************************************)
\* The reads and writes of the loop: what `io` holds before the four events
\* of each Quit call.
LoopEvents == Len(io) - 4 * (quits[0] + quits[1])

Forwards == IF LoopEvents = 0 THEN 0 ELSE (LoopEvents - 1) \div 2

\* C15: after the Start line the loop's events alternate read, write: the
\* read of ply k is from player k % 2, and the write that follows it sends
\* the move just applied, as its two characters and a newline, to the other
\* player.  Every applied move but the 60th is sent once, before the next
\* read; the 60th is not sent.
C15_EachMoveForwardedOnce ==
  /\ LoopEvents >= 0
  /\ LoopEvents >= 1 => io[1] = <<"write", 0, StartMsg>>
  /\ \A e \in 2 .. LoopEvents :
       IF e % 2 = 0
       THEN io[e] = <<"read", ((e \div 2) - 1) % 2>>
       ELSE LET j == (e - 1) \div 2
            IN  /\ j <= Len(history)
                /\ j < MAX_MOVES
                /\ io[e] = <<"write", j % 2, FormatMove(history[j]) \o <<NL>>>>
  /\ Forwards = (IF pc = "forward" THEN Len(history) - 1
                 ELSE IF Len(history) = MAX_MOVES THEN MAX_MOVES - 1
                 ELSE Len(history))

\* A match played to its end: 60 reads, 59 forwarded moves, the last of them
\* the 59th move sent to the second player, followed by the read of the 60th.
C15_Witness ==
  /\ pc = "returned"
  /\ fail = NoFail
  /\ Len(history) = MAX_MOVES
  /\ LoopEvents = 2 * MAX_MOVES
  /\ io[2 * MAX_MOVES - 1] = <<"write", 1, FormatMove(history[MAX_MOVES - 1]) \o <<NL>>>>
  /\ io[2 * MAX_MOVES] = <<"read", 1>>
  /\ io[2 * MAX_MOVES + 1] = <<"write", 1, QuitMsg>>

\* The four events of the c-th Quit call of a match, which is for player
\* `i`, are in `io` one after the other and in the order of Quit's body.
QuitEventsAt(c, i) ==
  LET at == LoopEvents + 4 * (c - 1)
  IN  /\ at >= 1
      /\ Len(io) >= at + 4
      /\ io[at + 1] = <<"write", i, QuitMsg>>
      /\ io[at + 2] = <<"close_in", i>>
      /\ io[at + 3] = <<"waitpid", i>>
      /\ io[at + 4] = <<"close_out", i>>

\* After each Quit call its four events are there, for player 1 first.
QuitEventsInOrder ==
  /\ pc = "quit1" => QuitEventsAt(1, 1)
  /\ pc = "returned" => QuitEventsAt(1, 1) /\ QuitEventsAt(2, 0)
  /\ pc \in {"quit2", "quit1", "returned"} => result.score = FinalScore(state)

\* A Quit call adds its four events and leaves the result and the board.
QuitKeepsResult ==
  pc \in {"quit2", "quit1"} =>
    /\ result' = result
    /\ state' = state
    /\ Len(io') = Len(io) + 4
    /\ SubSeq(io', 1, Len(io)) = io

\* C16: each Quit call does, in this order, the write of the Quit message,
\* the close of the write end, the wait for the child and the close of the
\* read end, whatever the write returned and whatever waitpid reported; a
\* Quit call leaves the result RunGame returns as it was, and that result
\* holds the score of the state the loop was left with.
C16_QuitStepsInOrder == []QuitEventsInOrder /\ [][QuitKeepsResult]_vars

\* A match played to its end has returned its score although the last Quit
\* write failed and the child did not leave with exit code 0.
C16_Witness ==
  /\ pc = "returned"
  /\ status = [write_ok |-> FALSE, wait |-> "reported"]
  /\ fail = NoFail
  /\ Len(history) = MAX_MOVES
  /\ result.score = CalculateScore(state)
  /\ QuitEventsAt(1, 1)
  /\ QuitEventsAt(2, 0)

\* The steps of a match that reject a line: the read, the parse or the
\* validation of the mover's line failed.
Rejections == {"read", "parse", "validate"}

\* A match holds as many moves in its history as it has applied, and its
\* result holds their codes; after a rejected line the last event of the loop
\* is the read of that line, which follows the Start line and a read and a
\* write for each applied move.
TranscriptIsApplied ==
  /\ Len(history) = state.moves_played
  /\ pc \in {"quit2", "quit1", "returned"} =>
       /\ result.transcript = EncodeHistory(history)
       /\ Len(result.transcript) = 2 * state.moves_played
  /\ fail.step \in Rejections =>
       /\ LoopEvents = 2 * Len(history) + 2
       /\ io[LoopEvents] = <<"read", fail.player>>
       /\ pc = "quit2" => ~ParseMove(line).ok \/ ~ValidateMove(state, ParseMove(line).move)

\* A step that rejects a line leaves the board, the move count and the
\* history alone and goes on to the Quit calls; a step that pushes a move to
\* the history is the step that applies that move to the board.
RejectedLineHasNoEffect ==
  /\ (fail'.step \in Rejections /\ fail.step = "none") =>
       /\ state' = state
       /\ history' = history
       /\ io' = Append(io, <<"read", fail'.player>>)
       /\ pc' = "quit2"
  /\ history' # history =>
       /\ ParseMove(line').ok
       /\ ValidateMove(state, ParseMove(line').move)
       /\ history' = Append(history, ParseMove(line').move)
       /\ state' = ExecuteMove(state, ParseMove(line').move)
  /\ state' # state => history' # history

\* C17: a line that cannot be parsed or that is not a legal move changes
\* neither the board nor the move count, is not pushed to the history and is
\* not sent to the other player; the history, and the transcript built from
\* it, hold exactly the applied moves in the order played, as many as
\* moves_played.
C17_RejectedLineLeavesNoTrace == []TranscriptIsApplied /\ [][RejectedLineHasNoEffect]_vars

\* After at least one applied move the mover has sent a well-formed move that
\* is not legal: the loop is left with the history as it was.
C17_Witness ==
  /\ pc = "quit2"
  /\ fail.step = "validate"
  /\ ParseMove(line).ok
  /\ Len(history) >= 1
  /\ Len(history) = state.moves_played
  /\ ~Find(history, ParseMove(line).move)
  /\ result.transcript = EncodeHistory(history)

(***************************************************************************)
(* The two rule engines side by side, and the search (SpecRules).          *)
(***************************************************************************)
\* C18: on every board and for either side to move (WHITE = 1, BLACK = 2,
\* WHITE to move when moves_played is even) ListMoves of the player returns
\* the same set of moves as ListValidMoves of the arbiter, and DoMove gives
\* the same fields and the same side to move as ExecuteMove: two boards
\* that were equal before a move are equal after it.
C18_EnginesAgree ==
  /\ rpc \in {"listed", "moved", "undone"} =>
       /\ ToSet(listed.moves) = ToSet(listed.valid_moves)
       /\ Len(listed.moves) = Len(listed.valid_moves)
  /\ rpc = "moved" =>
       /\ last.board = BoardOf(last.state)
       /\ board = BoardOf(state)

\* A legal move on the initial position that turns a disc: both engines list
\* it and both give the same board.
C18_Witness ==
  /\ rpc = "moved"
  /\ last.state = InitialState
  /\ Find(listed.valid_moves, last.move)
  /\ MoveIsValid(last.board, last.move)
  /\ Changed(last.state.fields, state.fields, last.move) # {}
  /\ board = BoardOf(state)
  /\ board.next_player = BLACK

\* The place of a move in a list of moves that holds it.
IndexOf(moves, move) == CHOOSE j \in 1 .. Len(moves) : moves[j] = move

\* `best` is the choice among `moves`, in the order SelectMove loops over
\* them, when move m is worth ValueOf(values, m): no move is worth more, and every
\* move before it is worth less.
FirstOfTheBest(moves, values, best) ==
  /\ Find(moves, best)
  /\ \A j \in 1 .. Len(moves) : ValueOf(values, moves[j]) <= ValueOf(values, best)
  /\ \A j \in 1 .. (IndexOf(moves, best) - 1) : ValueOf(values, moves[j]) < ValueOf(values, best)

\* C19: SelectMove returns true exactly when ListMoves of the board is not
\* empty; the move it then gives is one of those moves, passes MoveIsValid,
\* has the greatest value -Search(board after the move, 3) of them all, and is
\* the first move of that value in the shuffled order.
C19_SelectMoveChoosesFirstBest ==
  rpc = "selected" =>
    \A legal \in {ListMoves(sel.original_board)} :
      /\ sel.found = (Len(legal) > 0)
      /\ ToSet(Top.moves) = ToSet(legal)
      /\ Len(Top.moves) = Len(legal)
      /\ sel.found =>
           /\ MoveIsValid(sel.original_board, sel.best_move)
           /\ \A values \in {RootValues(sel.original_board, legal)} :
                FirstOfTheBest(Top.moves, values, sel.best_move)

\* On the initial position SelectMove has chosen the first of several moves
\* of the greatest value, after a shuffle that changed the order of the list.
C19_Witness ==
  /\ rpc = "selected"
  /\ sel.found
  /\ sel.original_board = InitialBoard
  /\ Top.moves # ListMoves(sel.original_board)
  /\ \E values \in {RootValues(sel.original_board, Top.moves)} :
       \E j \in 1 .. Len(Top.moves) :
         /\ j > IndexOf(Top.moves, sel.best_move)
         /\ ValueOf(values, Top.moves[j]) = ValueOf(values, sel.best_move)

\* The number of moves made on board b since SelectMove was called.
PliesFromRoot(b) == Discs(b.fields) - Discs(sel.original_board.fields)

\* The step in which Search returns Evaluate(board): a DoMove after which no
\* frame is pushed.
EvaluateStep == rpc = "do" /\ rpc' = "undo" /\ stack' = stack

\* Evaluate is applied `plies` moves after the root position, or earlier on
\* a board without a move.
EvaluatedAt(plies) ==
  EvaluateStep =>
    /\ ret' = Evaluate(board')
    /\ \/ PliesFromRoot(board') = plies
       \/ PliesFromRoot(board') < plies /\ ListMoves(board') = <<>>

\* C20 as stated: the search is 3 plies deep, so that Evaluate is applied
\* only 3 plies after the root position unless a move list is empty earlier.
C20_Original == [][EvaluatedAt(SEARCH_DEPTH)]_vars

\* The frames of the search: SelectMove hands depth 3 to Search, every call
\* of Search one less than it got, and the board on which the loop on top
\* of the stack runs is as many moves from the root as there are frames
\* below it.
DepthsOfTheFrames ==
  rpc \in {"do", "undo", "selected"} =>
    /\ \A n \in 1 .. Len(stack) :
         /\ stack[n].depth = SEARCH_DEPTH + 1 - n
         /\ PliesFromRoot(stack[n].base) = n - 1
    /\ Len(stack) <= SEARCH_DEPTH + 1

\* C20: SelectMove values each of its candidates as -Search(board, 3) on the
\* board after the candidate, and Search with depth > 0 values each move as
\* -Search(board, depth - 1): the search is 4 plies deep counted from the
\* position SelectMove is called on, and Evaluate is applied only 4 plies
\* after that position, unless a move list is empty earlier.
C20_EvaluateFourPliesFromRoot == []DepthsOfTheFrames /\ [][EvaluatedAt(SEARCH_DEPTH + 1)]_vars

\* Evaluate has just been applied in the innermost loop, which got depth 0
\* to hand on, to a board four moves after the initial position.
C20_Witness ==
  /\ rpc = "undo"
  /\ sel.original_board = InitialBoard
  /\ Len(stack) = SEARCH_DEPTH + 1
  /\ Top.depth = 0
  /\ PliesFromRoot(board) = SEARCH_DEPTH + 1
  /\ ret = Evaluate(board)

(***************************************************************************)
(* The legal moves of a match in progress (Spec).                          *)
(***************************************************************************)
\* RunGame is in its loop.
InProgress == pc \in {"loop", "read", "forward"}

\* C21: on every position a match reaches with fewer than 60 moves played
\* some empty cell has an occupied neighbour, so that ListValidMoves of the
\* arbiter and ListMoves of the player, on which SelectMove returns false
\* only when it is empty, both return at least one move.
C21_AlwaysAMoveBeforeSixty ==
  (InProgress /\ state.moves_played < MAX_MOVES) =>
    /\ \E m \in CellSet : state.fields[m.row][m.col] = 0 /\ HasOccupiedNeighbor(state, m.row, m.col)
    /\ ListValidMoves(state) # <<>>
    /\ ListMoves(BoardOf(state)) # <<>>

\* The last move of a match is still to be made: one cell is empty, and it
\* is the one legal move.
C21_Witness ==
  /\ pc = "loop"
  /\ state.moves_played = MAX_MOVES - 1
  /\ Len(history) = MAX_MOVES - 1
  /\ Len(ListValidMoves(state)) = 1
  /\ ListMoves(BoardOf(state)) = ListValidMoves(state)

(***************************************************************************)
(* The score RunGame returns (Spec).                                       *)
(***************************************************************************)
\* RunGame left its loop by a break.
LeftByBreak == fail.step # "none"

\* C23: the score of a match that ran to its 60th move is an even number in
\* -64 .. 64; the score of a match that was aborted is -99 or 99; so the two
\* tests of Main, score == -99 and score == +99, add one to the failures of
\* a tournament for an aborted match and nothing for a completed one.
C23_ScoreTellsForfeit ==
  Ended =>
    /\ LeftByBreak = ~IsGameOver(state)
    /\ ~LeftByBreak =>
         /\ result.score = CalculateScore(state)
         /\ result.score % 2 = 0
         /\ result.score >= 0 - SIZE * SIZE
         /\ result.score <= SIZE * SIZE
    /\ LeftByBreak => result.score \in {0 - 99, 99}
    /\ FailuresAdded(result.score) = Bool2Int(LeftByBreak)

\* A match has returned after 60 moves with one side ahead.
C23_Witness ==
  /\ pc = "returned"
  /\ ~LeftByBreak
  /\ Len(history) = MAX_MOVES
  /\ result.score # 0
  /\ result.score = CalculateScore(state)
  /\ FailuresAdded(result.score) = 0

(***************************************************************************)
(* A match between two reference players (SpecMatchFair).                  *)
(***************************************************************************)
\* The lines of player i that the arbiter has read are the moves of the
\* history at the plies of player i, in order.
LinesAccepted(i) ==
  /\ Reads(i) <= Len(procs[i].out)
  /\ Len(procs[i].out) <= Reads(i) + 1
  /\ \A k \in 1 .. Reads(i) :
       /\ 2 * (k - 1) + i + 1 <= Len(history)
       /\ history[2 * (k - 1) + i + 1] = DecodeMove(procs[i].out[k])

\* Player i runs, or has left with exit code 0 on the line Quit.
RunsOrLeftOnQuit(i) ==
  /\ procs[i].at \in {"main", "exit0"}
  /\ procs[i].at = "exit0" => (procs[i].line = QuitLine /\ quits[i] = 1)

\* The board of player i is the arbiter's position whenever both hold the
\* same number of discs, and is never more than one move away from it.
BoardInStep(i) ==
  /\ Placed(procs[i].board) - 4 \in (state.moves_played - 1) .. (state.moves_played + 1)
  /\ Placed(procs[i].board) - 4 = state.moves_played => procs[i].board = BoardOf(state)

MatchInOrder ==
  /\ fail = NoFail
  /\ \A i \in 0 .. 1 : LinesAccepted(i) /\ RunsOrLeftOnQuit(i) /\ BoardInStep(i)
  /\ pc \in {"quit2", "wait2", "quit1", "wait1", "returned"} =>
       /\ Len(history) = MAX_MOVES
       /\ result = [transcript |-> EncodeHistory(history), score |-> CalculateScore(state)]
       /\ procs[1].board = BoardOf(state)
  /\ pc \in {"quit1", "returned"} => status = [write_ok |-> TRUE, wait |-> "exit0"]
  /\ pc = "returned" => \A i \in 0 .. 1 : procs[i].at = "exit0" /\ Len(procs[i].out) = MAX_MOVES \div 2

\* A line std::getline gives a player is Start, Quit, or a move that is legal
\* on the board of that player, which DoMove then applies.
ForwardedIsLegal ==
  \A i \in 0 .. 1 :
    (procs'[i].reads = procs[i].reads + 1 /\ procs'[i].line \notin {StartLine, QuitLine}) =>
      /\ PlayerParseMove(procs'[i].line).ok
      /\ MoveIsValid(procs[i].board, DecodeMove(procs'[i].line))
      /\ procs'[i].board = DoMove(procs[i].board, DecodeMove(procs'[i].line))
      /\ procs'[i].line = FormatMove(history[Len(history)])

MatchCompleted ==
  /\ pc = "returned"
  /\ Len(history) = MAX_MOVES
  /\ IsGameOver(state)
  /\ fail = NoFail
  /\ \A i \in 0 .. 1 : procs[i].at = "exit0" /\ procs[i].line = QuitLine

\* C22: in a match between two reference players in which no system call
\* fails on its own, every line a player writes is a move the arbiter
\* accepts, every move a player reads is legal on its own board, no player
\* forfeits, and the match comes to its end: 60 moves played, the score of
\* the full board returned, and both players gone with exit code 0 on Quit.
C22_ReferenceMatchCompletes ==
  /\ []MatchInOrder
  /\ [][ForwardedIsLegal]_vars
  /\ <>MatchCompleted

\* The match has returned after 60 moves, 30 lines from each player, with
\* both players gone on Quit.
C22_Witness ==
  /\ pc = "returned"
  /\ Len(history) = MAX_MOVES
  /\ fail = NoFail
  /\ \A i \in 0 .. 1 :
       /\ procs[i].at = "exit0"
       /\ procs[i].line = QuitLine
       /\ Len(procs[i].out) = MAX_MOVES \div 2
       /\ Reads(i) = MAX_MOVES \div 2
  /\ procs[0].reads = 1 + (MAX_MOVES \div 2)
  /\ procs[1].reads = 1 + (MAX_MOVES \div 2)
  /\ status = [write_ok |-> TRUE, wait |-> "exit0"]
====
